---- MODULE Spec2Model ----
(***************************************************************************)
(* Weekly roster-scoring prediction engine of fantasy_basketball_tools:    *)
(* Week (common/week.py), RosterWeekPredictor                              *)
(* (predict/internal/roster_week_predictor.py), the loops over the         *)
(* league's teams (predict/predict_week.py), the API key manager           *)
(* (auth/api_key.py) with the decorator and the tiers that guard the       *)
(* endpoints (auth/decorators.py, auth/authz.py), the injury cache         *)
(* (common/injury_cache.py), the conversions between dates, scoring        *)
(* periods and matchup weeks (utils/date_utils.py), and the line-up        *)
(* (line_up/line_up_editer.py).                                            *)
(*                                                                         *)
(* Numbers.  Stat values are integers.  A mean or a variance of n <= 4     *)
(* integer samples is a multiple of 1/Denom, so the pairs returned by      *)
(* get_avg_variance_stats, and every sum of them, are held exactly as      *)
(* integer multiples of 1/Denom.  math.sqrt is held as the floor of the    *)
(* root in units of 1/Prec.                                                *)
(***************************************************************************)
EXTENDS Integers, Sequences, FiniteSets, TLC

VARIABLES
    stats,          \* argument of get_fantasy_pts
    fpts,           \* what get_fantasy_pts returned (or raised)
    player,         \* argument of get_avg_variance_stats
    avg_var,        \* what get_avg_variance_stats returned (or raised)
    league,         \* the schedule source: scoring period -> pro team ids
    match_up_week,  \* argument of Week.__init__
    week,           \* the Week object: scoring_period, team_game_list
    roster,         \* RosterWeekPredictor.roster
    call,           \* the last predictor call: method and arguments
    loc,            \* the locals of each iteration of its loop over the days
    ret,            \* what the last finished call returned (or raised)
    keys,           \* APIKeyManager.keys: key -> APIKeyInfo
    keys_file,      \* what _save_keys last wrote to the keys file
    now,            \* the hour datetime.utcnow() falls in
    cache_files,    \* the injury cache files: league id -> what the file holds
    today           \* date.today(), as the ordinal of the day

vars == <<stats, fpts, player, avg_var, league, match_up_week, week,
          roster, call, loc, ret, keys, keys_file, now, cache_files, today>>

\* Outcomes of a call: nothing yet (or Python's None), a returned value, a
\* raised exception
None == <<>>
Return(v) == <<"return", v>>
Raise(e) == <<"raise", e>>
Returned(r) == r # None /\ r[1] = "return"
KeyError == Raise("KeyError")  \* a dict subscript on a missing key

-----------------------------------------------------------------------------
(* Bounds *)

MaxEdits == 2   \* categories in which a stat block differs from a base block
MaxStat == 2    \* largest value an edited category takes
MaxPts == 3     \* largest PTS of the one-category blocks of a player's periods
MaxWeek == 2    \* largest matchup week, besides week 10 of the tests
SeasonDays == 8 \* days after which an enumerated season schedule repeats
MaxRoster == 2  \* players of an enumerated roster
MaxCap == 1     \* largest daily_active_size, besides 5 and 9 of the tests
MaxStart == 1   \* largest starting_day

-----------------------------------------------------------------------------
(* Stat blocks and the scoring formula *)

Categories ==
    {"PTS", "3PTM", "FGA", "FGM", "FTA", "FTM", "REB", "AST", "STL", "BLK", "TO"}

\* stats.get(cat, 0)
get_stat_in_category(st, cat) == IF cat \in DOMAIN st THEN st[cat] ELSE 0

\* The categories get_fantasy_pts reads with stats[cat]
Subscripted == {"FGA", "FGM", "FTA", "FTM", "REB", "AST", "STL", "TO"}

\* A field goal made counted once
get_fantasy_pts_fgm_once(st) ==
    IF ~(Subscripted \subseteq DOMAIN st)
    THEN KeyError
    ELSE Return(
           get_stat_in_category(st, "PTS")
         + get_stat_in_category(st, "3PTM")
         - st["FGA"]
         + st["FGM"]
         - st["FTA"]
         + st["FTM"]
         + st["REB"]
         + st["AST"] * 2
         + st["STL"] * 4
         + get_stat_in_category(st, "BLK") * 4
         - st["TO"] * 2)

get_fantasy_pts(st) ==
    IF ~(Subscripted \subseteq DOMAIN st)
    THEN KeyError
    ELSE Return(
           get_stat_in_category(st, "PTS")
         + get_stat_in_category(st, "3PTM")
         - st["FGA"]
         + st["FGM"] * 2
         - st["FTA"]
         + st["FTM"]
         + st["REB"]
         + st["AST"] * 2
         + st["STL"] * 4
         + get_stat_in_category(st, "BLK") * 4
         - st["TO"] * 2)

\* The block of test_get_fantasy_pts_complete_stats
ExampleBlock ==
    [c \in Categories |->
        CASE c = "PTS" -> 20 [] c = "3PTM" -> 2 [] c = "FGA" -> 15
          [] c = "FGM" -> 8  [] c = "FTA" -> 5  [] c = "FTM" -> 4
          [] c = "REB" -> 5  [] c = "AST" -> 3  [] c = "STL" -> 1
          [] c = "BLK" -> 1  [] c = "TO" -> 2]

ZeroBlock == [c \in Categories |-> 0]

\* base without the categories of R and with category c set to e[c]
Patch(base, R, e) ==
    [c \in (DOMAIN base) \ R |-> IF c \in DOMAIN e THEN e[c] ELSE base[c]]

\* The blocks that differ from a base block in at most MaxEdits categories
Edits ==
    UNION {{<<R, e>> : e \in [D \ R -> 0..MaxStat]} :
           <<D, R>> \in {<<X, Y>> \in (SUBSET Categories) \X (SUBSET Categories) :
                            Y \subseteq X /\ Cardinality(X) <= MaxEdits}}

StatBlocks ==
    {Patch(base, re[1], re[2]) : base \in {ExampleBlock, ZeroBlock}, re \in Edits}

-----------------------------------------------------------------------------
(* get_fantasy_pts applied to one stat block *)

NoPredictor ==
    /\ league = None /\ match_up_week = None /\ week = None
    /\ roster = <<>> /\ call = None /\ loc = None /\ ret = None
    /\ keys = None /\ keys_file = None /\ now = 0 /\ cache_files = None /\ today = None

InitPts ==
    /\ stats \in StatBlocks
    /\ fpts = None
    /\ player = None /\ avg_var = None
    /\ NoPredictor

GetFantasyPts ==
    /\ stats # None
    /\ fpts = None
    /\ fpts' = get_fantasy_pts(stats)
    /\ UNCHANGED <<stats, player, avg_var, league, match_up_week, week,
                   roster, call, loc, ret, keys, keys_file, now, cache_files, today>>

NextPts == GetFantasyPts

SpecPts == InitPts /\ [][NextPts]_vars

\* The value the scoring formula gives when every absent category counts 0
Weight(c) ==
    CASE c \in {"PTS", "3PTM", "FTM", "REB"} -> 1
      [] c \in {"FGM", "AST"} -> 2
      [] c \in {"STL", "BLK"} -> 4
      [] c \in {"FGA", "FTA"} -> 0 - 1
      [] c = "TO" -> 0 - 2

RECURSIVE WeightedSum(_, _)
WeightedSum(st, C) ==
    IF C = {} THEN 0
    ELSE LET c == CHOOSE x \in C : TRUE
         IN  Weight(c) * st[c] + WeightedSum(st, C \ {c})

\* C3: for a stat block with all eleven categories get_fantasy_pts returns
\* PTS + 3PTM - FGA + 2*FGM - FTA + FTM + REB + 2*AST + 4*STL + 4*BLK - 2*TO,
\* which is 37 for the block of the example.
C3_ScoringFormula ==
    (fpts # None /\ DOMAIN stats = Categories) =>
        /\ fpts = Return(WeightedSum(stats, Categories))
        /\ (stats = ExampleBlock => fpts = Return(37))

C3_Witness == stats = ExampleBlock /\ fpts = Return(37)

\* C4: whichever of the eleven categories is absent from the block,
\* get_fantasy_pts counts it as 0 and returns a value.
C4_AbsentCategoryIsZero ==
    fpts # None => fpts = Return(WeightedSum(stats, DOMAIN stats))

-----------------------------------------------------------------------------
(* Players and get_avg_variance_stats *)

stat_period_list == <<"2026_last_30", "2026_last_15", "2026_last_7", "2026_projected">>

\* Means and variances are held as integer multiples of 1/Denom: n and
\* n*(n-1) divide Denom for every sample count n the four periods allow.
Denom == Len(stat_period_list) * (Len(stat_period_list) - 1)

get_stat_from_stat_period(p, stat_period) ==
    IF stat_period \notin DOMAIN p.stats
    THEN None
    ELSE LET st == p.stats[stat_period]
         IN  IF "avg" \in DOMAIN st THEN get_fantasy_pts(st["avg"]) ELSE None

RECURSIVE SeqSum(_)
SeqSum(s) == IF s = <<>> THEN 0 ELSE Head(s) + SeqSum(Tail(s))

\* statistics.mean(data), in units of 1/Denom
mean(data) == (Denom * SeqSum(data)) \div Len(data)

\* The population variance: over n instead of n - 1
variance_over_n(data) ==
    LET n == Len(data)
        total == SeqSum(data)
        sq == [i \in 1..n |-> (n * data[i] - total) * (n * data[i] - total)]
    IN  (Denom * SeqSum(sq)) \div (n * n * n)

\* statistics.variance(data): the sum of the squared deviations from the mean
\* over n - 1, in units of 1/Denom.  n*x - sum is n times the deviation of x.
variance(data) ==
    LET n == Len(data)
        total == SeqSum(data)
        sq == [i \in 1..n |-> (n * data[i] - total) * (n * data[i] - total)]
    IN  (Denom * SeqSum(sq)) \div (n * n * (n - 1))

\* The list fpts_for_stat_period: what get_stat_from_stat_period gives for
\* each candidate period, in list order
fpts_for_stat_period(p) ==
    [i \in 1..Len(stat_period_list) |-> get_stat_from_stat_period(p, stat_period_list[i])]

\* A truth test in place of "is not None": a period worth 0 points dropped
ignore_falsy_fpts_list(fl) ==
    LET found == SelectSeq(fl, LAMBDA f : f # None /\ f[2] # 0)
    IN  [i \in 1..Len(found) |-> found[i][2]]

\* [fpts for fpts in fpts_for_stat_period if fpts is not None]
ignore_none_fpts_list(fl) ==
    LET found == SelectSeq(fl, LAMBDA f : f # None)
    IN  [i \in 1..Len(found) |-> found[i][2]]

get_avg_variance_stats_of(fl, l) ==
    IF \E i \in 1..Len(fl) : fl[i] = KeyError THEN KeyError
    ELSE IF Len(l) = 0 THEN Return(<<0, 0>>)
    ELSE Return(<<mean(l), IF Len(l) > 1 THEN variance(l) ELSE 0>>)

get_avg_variance_stats(p) ==
    get_avg_variance_stats_of(fpts_for_stat_period(p),
                              ignore_none_fpts_list(fpts_for_stat_period(p)))

\* Blocks a stat period of a player holds
PtsBlock(p) == [ZeroBlock EXCEPT !["PTS"] = p]              \* scores p
TurnoverBlock == [ZeroBlock EXCEPT !["TO"] = 1]             \* scores -2
NoBLKBlock == Patch(ExampleBlock, {"BLK"}, <<>>)            \* scores 33
NoFGABlock == Patch(ExampleBlock, {"FGA"}, <<>>)            \* raises KeyError

PeriodBlocks ==
    {PtsBlock(p) : p \in 0..MaxPts} \cup {TurnoverBlock, NoBLKBlock, NoFGABlock}

\* An entry of player.stats: with an "avg" block, or without
PeriodEntries == {[x \in {"avg"} |-> b] : b \in PeriodBlocks} \cup {<<>>}

PeriodLabels == {stat_period_list[i] : i \in 1..Len(stat_period_list)} \cup {"2025_total"}

PlayerStats == UNION {[L -> PeriodEntries] : L \in SUBSET PeriodLabels}

InitAvg ==
    /\ player \in {[proTeam |-> "LAL", injuryStatus |-> "ACTIVE", stats |-> s] :
                     s \in PlayerStats}
    /\ avg_var = None
    /\ stats = None /\ fpts = None
    /\ NoPredictor

GetAvgVarianceStats ==
    /\ player # None
    /\ avg_var = None
    /\ avg_var' = get_avg_variance_stats(player)
    /\ loc' = fpts_for_stat_period(player)
    /\ UNCHANGED <<stats, fpts, player, league, match_up_week, week,
                   roster, call, ret, keys, keys_file, now, cache_files, today>>

NextAvg == GetAvgVarianceStats

SpecAvg == InitAvg /\ [][NextAvg]_vars

\* The candidate periods of p that have an "avg" block, in list order
UsablePeriods(p) ==
    SelectSeq(stat_period_list,
              LAMBDA l : l \in DOMAIN p.stats /\ "avg" \in DOMAIN p.stats[l])

\* The fantasy-point value of each usable period
Samples(p) ==
    [i \in 1..Len(UsablePeriods(p)) |->
        get_fantasy_pts(p.stats[UsablePeriods(p)[i]]["avg"])[2]]

RECURSIVE SumOfSquares(_)
SumOfSquares(s) == IF s = <<>> THEN 0 ELSE Head(s) * Head(s) + SumOfSquares(Tail(s))

\* C5: get_avg_variance_stats returns (0, 0) with no usable period, variance 0
\* with exactly one, and with n >= 2 the arithmetic mean (n * avg = sum) and
\* the unbiased sample variance (n(n-1) * var = n * sum of squares - sum^2);
\* the variance is never negative.
C5_MeanAndSampleVariance ==
    Returned(avg_var) =>
        LET xs == Samples(player)
            n == Len(xs)
            avg == avg_var[2][1]
            var == avg_var[2][2]
        IN  /\ var >= 0
            /\ n = 0 => (avg = 0 /\ var = 0)
            /\ n = 1 => (avg = Denom * xs[1] /\ var = 0)
            /\ n >= 1 => n * avg = Denom * SeqSum(xs)
            /\ n >= 2 => n * (n - 1) * var
                           = Denom * (n * SumOfSquares(xs) - SeqSum(xs) * SeqSum(xs))

\* Three periods scoring 0, 1 and 3: mean 4/3, variance 7/3
C5_Witness ==
    /\ Returned(avg_var)
    /\ Samples(player) = <<0, 1, 3>>
    /\ avg_var[2] = <<16, 28>>

\* The candidate period stat_period_list[i] of p has an "avg" block
HasAvg(p, i) ==
    /\ stat_period_list[i] \in DOMAIN p.stats
    /\ "avg" \in DOMAIN p.stats[stat_period_list[i]]

\* The values of the candidate periods that produced one, in list order
Produced(fl) ==
    LET found == SelectSeq(fl, LAMBDA f : Returned(f))
    IN  [i \in 1..Len(found) |-> found[i][2]]

IsMeanAndVarianceOf(avg, var, xs) ==
    /\ Len(xs) = 0 => (avg = 0 /\ var = 0)
    /\ Len(xs) = 1 => var = 0
    /\ Len(xs) >= 1 => Len(xs) * avg = Denom * SeqSum(xs)
    /\ Len(xs) >= 2 => Len(xs) * (Len(xs) - 1) * var
                         = Denom * (Len(xs) * SumOfSquares(xs) - SeqSum(xs) * SeqSum(xs))

\* C16: get_stat_from_stat_period returns None, and raises nothing, for a
\* period label absent from player.stats or whose entry has no "avg"
\* block, and a value only for a period with one; get_avg_variance_stats
\* computes its mean and variance over exactly the values of the candidate
\* periods that produced one, however few.
C16_AbsentPeriodsAreSkipped ==
    avg_var # None =>
        /\ Len(loc) = Len(stat_period_list)
        /\ \A i \in 1..Len(stat_period_list) :
              /\ ~HasAvg(player, i) => loc[i] = None
              /\ HasAvg(player, i) => loc[i] # None
        /\ Returned(avg_var) =>
              /\ \A i \in 1..Len(stat_period_list) : HasAvg(player, i) => Returned(loc[i])
              /\ IsMeanAndVarianceOf(avg_var[2][1], avg_var[2][2], Produced(loc))

\* No '2026_last_30', a '2026_last_15' without "avg", and two periods worth
\* 0 and 2 points: mean 1 and variance 2
C16_Witness ==
    /\ avg_var # None
    /\ "2026_last_30" \notin DOMAIN player.stats
    /\ "2026_last_15" \in DOMAIN player.stats
    /\ "avg" \notin DOMAIN player.stats["2026_last_15"]
    /\ loc = <<None, None, Return(0), Return(2)>>
    /\ avg_var = Return(<<Denom, 2 * Denom>>)

-----------------------------------------------------------------------------
(* Week *)

\* espn_api's PRO_TEAM_MAP, the entries the schedules here use
PRO_TEAM_MAP == (2 :> "BOS") @@ (13 :> "LAL")

\* The keys of a day's schedule dict, in the dict's order
TeamIdLists == {<<>>, <<2>>, <<13>>, <<2, 13>>}

\* The schedule source.  league.schedule lists the days of a season that
\* repeats after Len(league.schedule) days, so that the days of any one week
\* are arbitrary.
Leagues == {[schedule |-> sc] : sc \in [1..SeasonDays -> TeamIdLists]}

\* league._get_pro_schedule(scoring_period).keys()
_get_pro_schedule(lg, scoring_period) ==
    lg.schedule[(scoring_period % Len(lg.schedule)) + 1]

\* Week 1 like every other week
convert_without_week_1(w) == <<7 * (w - 1), 7 * w - 1>>

_match_up_week_to_scoring_period_convert(w) ==
    IF w = 1 THEN <<0, 7>> ELSE <<7 * (w - 1), 7 * w - 1>>

\* The last scoring period left out
team_game_list_without_last(lg, scoring_period) ==
    [i \in 1..(scoring_period[2] - scoring_period[1]) |->
        LET ids == _get_pro_schedule(lg, scoring_period[1] + i - 1)
        IN  [k \in 1..Len(ids) |-> PRO_TEAM_MAP[ids[k]]]]

\* Entry i (from 1) is the day of scoring period scoring_period[0] + i - 1
_get_team_game_list(lg, scoring_period) ==
    [i \in 1..(scoring_period[2] + 1 - scoring_period[1]) |->
        LET ids == _get_pro_schedule(lg, scoring_period[1] + i - 1)
        IN  [k \in 1..Len(ids) |-> PRO_TEAM_MAP[ids[k]]]]

\* Week.__init__
Week(lg, w) ==
    LET sp == _match_up_week_to_scoring_period_convert(w)
    IN  [scoring_period |-> sp, team_game_list |-> _get_team_game_list(lg, sp)]

Weeks == (1..MaxWeek) \cup {10}

NoCalls ==
    /\ stats = None /\ fpts = None /\ player = None /\ avg_var = None
    /\ roster = <<>> /\ call = None /\ loc = None /\ ret = None
    /\ keys = None /\ keys_file = None /\ now = 0 /\ cache_files = None /\ today = None

InitWeek ==
    /\ league \in Leagues
    /\ match_up_week = None
    /\ week = None
    /\ NoCalls

\* week = Week(league, w) for a matchup week w of W
NewWeek(W) ==
    /\ league # None
    /\ week = None
    /\ \E w \in W :
        /\ match_up_week' = w
        /\ week' = Week(league, w)
    /\ UNCHANGED <<stats, fpts, player, avg_var, league, roster, call, loc, ret, keys, keys_file, now, cache_files, today>>

NextWeek == NewWeek(Weeks)

SpecWeek == InitWeek /\ [][NextWeek]_vars

\* C8: week 1 maps to scoring periods (0, 7), 8 days, and every week w > 1
\* to (7*(w-1), 7*w-1), 7 days: week 2 is 7..13 and week 10 is 63..69.
C8_WeekToScoringPeriods ==
    week # None =>
        LET first == week.scoring_period[1]
            last == week.scoring_period[2]
        IN  /\ match_up_week = 1 => (first = 0 /\ last = 7 /\ last - first + 1 = 8)
            /\ match_up_week > 1 =>
                  /\ first = 7 * (match_up_week - 1)
                  /\ last = first + 6
            /\ match_up_week = 2 => week.scoring_period = <<7, 13>>
            /\ match_up_week = 10 => week.scoring_period = <<63, 69>>

C8_Witness ==
    /\ week # None
    /\ match_up_week = 10
    /\ week.scoring_period = <<63, 69>>

\* C9: a constructed Week has scoring_period[1] - scoring_period[0] + 1 days
\* (8 for week 1), and day i lists the pro teams the schedule source reports
\* for scoring period scoring_period[0] + i.
C9_OneEntryPerScoringPeriod ==
    week # None =>
        LET first == week.scoring_period[1]
            last == week.scoring_period[2]
        IN  /\ Len(week.team_game_list) = last - first + 1
            /\ match_up_week = 1 => Len(week.team_game_list) = 8
            /\ \A i \in 0..(Len(week.team_game_list) - 1) :
                  LET ids == _get_pro_schedule(league, first + i)
                      day == week.team_game_list[i + 1]
                  IN  /\ Len(day) = Len(ids)
                      /\ \A k \in 1..Len(ids) :
                            /\ ids[k] = 2 => day[k] = "BOS"
                            /\ ids[k] = 13 => day[k] = "LAL"

\* Week 1 of a season whose first day has both teams playing and whose
\* eighth day has only LAL
C9_Witness ==
    /\ week # None
    /\ match_up_week = 1
    /\ Len(week.team_game_list) = 8
    /\ week.team_game_list[1] = <<"BOS", "LAL">>
    /\ week.team_game_list[8] = <<"LAL">>

-----------------------------------------------------------------------------
(* RosterWeekPredictor *)

Elems(s) == {s[i] : i \in 1..Len(s)}
Min(a, b) == IF a <= b THEN a ELSE b
Max(a, b) == IF a >= b THEN a ELSE b

\* An optional argument: omitted, or given
Omitted == <<>>
Given(x) == <<x>>

IndexError == Raise("IndexError")

\* A player is denoted by its position in the roster (from 1).
\* getattr(player, 'injuryStatus', 'ACTIVE')
getattr_injuryStatus(p) ==
    IF "injuryStatus" \in DOMAIN p THEN p.injuryStatus ELSE "ACTIVE"

\* self.week.team_game_list[day], with Python's negative indices
team_playing(wk, day) ==
    LET n == Len(wk.team_game_list)
    IN  IF day >= 0 /\ day < n THEN Return(wk.team_game_list[day + 1])
        ELSE IF day < 0 /\ day >= 0 - n THEN Return(wk.team_game_list[n + day + 1])
        ELSE IndexError

players_with_game(ro, wk, day) ==
    LET tp == team_playing(wk, day)
    IN  IF ~Returned(tp) THEN tp
        ELSE Return(SelectSeq([i \in 1..Len(ro) |-> i],
                              LAMBDA i : ro[i].proTeam \in Elems(tp[2])))

\* No sort: the entries stay in roster order
sort_not_done(s) == s

\* Sorted ascending and then reversed: entries with equal keys end in
\* reverse order
RECURSIVE sort_then_reverse(_)
sort_then_reverse(s) ==
    IF s = <<>> THEN <<>>
    ELSE LET r == sort_then_reverse(SubSeq(s, 1, Len(s) - 1))
             x == s[Len(s)]
             k == Cardinality({j \in 1..Len(r) : r[j][1] > x[1]})
         IN  SubSeq(r, 1, k) \o <<x>> \o SubSeq(r, k + 1, Len(r))

\* list.sort(reverse=True, key=lambda x: x[0]): stable, so entries with equal
\* keys keep their order
RECURSIVE sort_reverse(_)
sort_reverse(s) ==
    IF s = <<>> THEN <<>>
    ELSE LET r == sort_reverse(SubSeq(s, 1, Len(s) - 1))
             x == s[Len(s)]
             k == Cardinality({j \in 1..Len(r) : r[j][1] >= x[1]})
         IN  SubSeq(r, 1, k) \o <<x>> \o SubSeq(r, k + 1, Len(r))

\* s[:k]
slice_to(s, k) ==
    IF k >= 0 THEN SubSeq(s, 1, Min(k, Len(s)))
    ELSE SubSeq(s, 1, Max(Len(s) + k, 0))

\* The start ignored: every index from 0
range_from_0(a, b) == [i \in 1..Max(b, 0) |-> i - 1]

\* range(a, b)
range(a, b) == [i \in 1..Max(b - a, 0) |-> a + i - 1]

\* math.sqrt(v) for v in units of 1/Denom: the floor of the root, in units of
\* 1/Prec
Prec == 10 * 10

RECURSIVE isqrt(_, _, _)
isqrt(x, lo, hi) ==
    IF hi - lo <= 1 THEN lo
    ELSE LET mid == (lo + hi) \div 2
         IN  IF mid * mid <= x THEN isqrt(x, mid, hi) ELSE isqrt(x, lo, mid)

math_sqrt(v) == LET x == (v * Prec * Prec) \div Denom IN isqrt(x, 0, Min(x, 46340) + 1)

predict_default_daily_active_size == 10
games_default_daily_active_size == 9

\* The injury filter left out
predict_day_unfiltered(ro, wk, day, daily_active_size, injuryStatusList) ==
    LET pwg == players_with_game(ro, wk, day)
    IN  IF ~Returned(pwg) THEN pwg
        ELSE
        LET eligible == pwg[2]
            av == [k \in 1..Len(eligible) |-> get_avg_variance_stats(ro[eligible[k]])]
        IN  IF \E k \in 1..Len(eligible) : ~Returned(av[k]) THEN KeyError
            ELSE
            LET player_stats == [k \in 1..Len(eligible) |->
                                    <<av[k][2][1], av[k][2][2], eligible[k]>>]
                top_stats == slice_to(sort_reverse(player_stats), daily_active_size)
            IN  Return([day |-> day,
                        players_with_game |-> eligible,
                        top_stats |-> top_stats,
                        day_points |-> SeqSum([k \in 1..Len(top_stats) |-> top_stats[k][1]]),
                        day_variance |-> SeqSum([k \in 1..Len(top_stats) |-> top_stats[k][2]])])

\* A day without an eligible player raises, as statistics.mean of an empty
\* list would
predict_day_needs_a_player(ro, wk, day, daily_active_size, injuryStatusList) ==
    LET pwg == players_with_game(ro, wk, day)
    IN  IF ~Returned(pwg) THEN pwg
        ELSE
        LET eligible == SelectSeq(pwg[2],
                LAMBDA i : getattr_injuryStatus(ro[i]) \in Elems(injuryStatusList))
            av == [k \in 1..Len(eligible) |-> get_avg_variance_stats(ro[eligible[k]])]
        IN  IF \E k \in 1..Len(eligible) : ~Returned(av[k]) THEN KeyError
            ELSE IF eligible = <<>> THEN Raise("StatisticsError")
            ELSE
            LET player_stats == [k \in 1..Len(eligible) |->
                                    <<av[k][2][1], av[k][2][2], eligible[k]>>]
                top_stats == slice_to(sort_reverse(player_stats), daily_active_size)
            IN  Return([day |-> day,
                        players_with_game |-> eligible,
                        top_stats |-> top_stats,
                        day_points |-> SeqSum([k \in 1..Len(top_stats) |-> top_stats[k][1]]),
                        day_variance |-> SeqSum([k \in 1..Len(top_stats) |-> top_stats[k][2]])])

\* Only players of positive mean counted
predict_day_positive_means(ro, wk, day, daily_active_size, injuryStatusList) ==
    LET pwg == players_with_game(ro, wk, day)
    IN  IF ~Returned(pwg) THEN pwg
        ELSE
        LET eligible == SelectSeq(pwg[2],
                LAMBDA i : getattr_injuryStatus(ro[i]) \in Elems(injuryStatusList))
            av == [k \in 1..Len(eligible) |-> get_avg_variance_stats(ro[eligible[k]])]
        IN  IF \E k \in 1..Len(eligible) : ~Returned(av[k]) THEN KeyError
            ELSE
            LET player_stats == [k \in 1..Len(eligible) |->
                                    <<av[k][2][1], av[k][2][2], eligible[k]>>]
                top_stats == SelectSeq(
                    slice_to(sort_reverse(player_stats), daily_active_size),
                    LAMBDA x : x[1] > 0)
            IN  Return([day |-> day,
                        players_with_game |-> eligible,
                        top_stats |-> top_stats,
                        day_points |-> SeqSum([k \in 1..Len(top_stats) |-> top_stats[k][1]]),
                        day_variance |-> SeqSum([k \in 1..Len(top_stats) |-> top_stats[k][2]])])

\* One iteration of predict's loop: its locals, or the exception it raises
predict_day(ro, wk, day, daily_active_size, injuryStatusList) ==
    LET pwg == players_with_game(ro, wk, day)
    IN  IF ~Returned(pwg) THEN pwg
        ELSE
        LET eligible == SelectSeq(pwg[2],
                LAMBDA i : getattr_injuryStatus(ro[i]) \in Elems(injuryStatusList))
            av == [k \in 1..Len(eligible) |-> get_avg_variance_stats(ro[eligible[k]])]
        IN  IF \E k \in 1..Len(eligible) : ~Returned(av[k]) THEN KeyError
            ELSE
            LET player_stats == [k \in 1..Len(eligible) |->
                                    <<av[k][2][1], av[k][2][2], eligible[k]>>]
                top_stats == slice_to(sort_reverse(player_stats), daily_active_size)
            IN  Return([day |-> day,
                        players_with_game |-> eligible,
                        top_stats |-> top_stats,
                        day_points |-> SeqSum([k \in 1..Len(top_stats) |-> top_stats[k][1]]),
                        day_variance |-> SeqSum([k \in 1..Len(top_stats) |-> top_stats[k][2]])])

\* The standard deviation taken per day and summed
RECURSIVE predict_loop_root_per_day(_, _, _, _, _, _, _, _)
predict_loop_root_per_day(ro, wk, days, daily_active_size, injuryStatusList, total_points, variances, trace) ==
    IF days = <<>>
    THEN [ret |-> Return(<<total_points, variances>>), loc |-> trace]
    ELSE LET it == predict_day(ro, wk, Head(days), daily_active_size, injuryStatusList)
         IN  IF ~Returned(it) THEN [ret |-> it, loc |-> trace]
             ELSE predict_loop_root_per_day(
                      ro, wk, Tail(days), daily_active_size, injuryStatusList,
                      total_points + it[2].day_points,
                      variances + math_sqrt(it[2].day_variance),
                      Append(trace, it[2]))

\* predict's loop over the days still to visit
RECURSIVE predict_loop(_, _, _, _, _, _, _, _)
predict_loop(ro, wk, days, daily_active_size, injuryStatusList, total_points, variances, trace) ==
    IF days = <<>>
    THEN [ret |-> Return(<<total_points, math_sqrt(variances)>>), loc |-> trace]
    ELSE LET it == predict_day(ro, wk, Head(days), daily_active_size, injuryStatusList)
         IN  IF ~Returned(it) THEN [ret |-> it, loc |-> trace]
             ELSE predict_loop(ro, wk, Tail(days), daily_active_size, injuryStatusList,
                               total_points + it[2].day_points,
                               variances + it[2].day_variance,
                               Append(trace, it[2]))

num_days(wk) == wk.scoring_period[2] - wk.scoring_period[1] + 1

\* RosterWeekPredictor.predict; the arguments daily_active_size and
\* injuryStatusList are optional
predict(ro, wk, daily_active_size, starting_day, injuryStatusList) ==
    predict_loop(ro, wk, range(starting_day, num_days(wk)),
                 IF daily_active_size = Omitted
                 THEN predict_default_daily_active_size ELSE daily_active_size[1],
                 IF injuryStatusList = Omitted THEN <<"ACTIVE">> ELSE injuryStatusList[1],
                 0, 0, <<>>)

\* Every eligible player counted, whatever the cap
games_day_uncapped(ro, wk, day, daily_active_size, injuryStatusList) ==
    LET pwg == players_with_game(ro, wk, day)
    IN  IF ~Returned(pwg) THEN pwg
        ELSE
        LET eligible_players == SelectSeq(pwg[2],
                LAMBDA i : getattr_injuryStatus(ro[i]) \in Elems(injuryStatusList))
        IN  Return([day |-> day,
                    eligible_players |-> eligible_players,
                    counted |-> Len(eligible_players)])

\* One iteration of get_total_number_of_games's loop
games_day(ro, wk, day, daily_active_size, injuryStatusList) ==
    LET pwg == players_with_game(ro, wk, day)
    IN  IF ~Returned(pwg) THEN pwg
        ELSE
        LET eligible_players == SelectSeq(pwg[2],
                LAMBDA i : getattr_injuryStatus(ro[i]) \in Elems(injuryStatusList))
        IN  Return([day |-> day,
                    eligible_players |-> eligible_players,
                    counted |-> Min(Len(eligible_players), daily_active_size)])

RECURSIVE games_loop(_, _, _, _, _, _, _)
games_loop(ro, wk, days, daily_active_size, injuryStatusList, total, trace) ==
    IF days = <<>>
    THEN [ret |-> Return(total), loc |-> trace]
    ELSE LET it == games_day(ro, wk, Head(days), daily_active_size, injuryStatusList)
         IN  IF ~Returned(it) THEN [ret |-> it, loc |-> trace]
             ELSE games_loop(ro, wk, Tail(days), daily_active_size, injuryStatusList,
                             total + it[2].counted, Append(trace, it[2]))

\* RosterWeekPredictor.get_total_number_of_games
get_total_number_of_games(ro, wk, daily_active_size, starting_day, injuryStatusList) ==
    games_loop(ro, wk, range(starting_day, num_days(wk)),
               IF daily_active_size = Omitted
               THEN games_default_daily_active_size ELSE daily_active_size[1],
               IF injuryStatusList = Omitted THEN <<"ACTIVE">> ELSE injuryStatusList[1],
               0, <<>>)

-----------------------------------------------------------------------------
(* A roster, a Week and the calls of its RosterWeekPredictor *)

\* Python's None as an injury status: it equals no status string
NoneStatus == "<None>"

\* player.stats with one "avg" block scoring xs[i] for each of the first
\* Len(xs) candidate periods
StatsScoring(blocks) ==
    [l \in {stat_period_list[i] : i \in 1..Len(blocks)} |->
        [x \in {"avg"} |->
            blocks[CHOOSE i \in 1..Len(blocks) : stat_period_list[i] = l]]]

PlayerPool == {
    \* mean 2, variance 4
    [proTeam |-> "LAL", injuryStatus |-> "ACTIVE",
     stats |-> StatsScoring(<<PtsBlock(0), PtsBlock(2), PtsBlock(4)>>)],
    \* mean 3, variance 9
    [proTeam |-> "BOS", injuryStatus |-> "ACTIVE",
     stats |-> StatsScoring(<<PtsBlock(0), PtsBlock(3), PtsBlock(6)>>)],
    \* mean 3, variance 0
    [proTeam |-> "LAL", injuryStatus |-> "OUT",
     stats |-> StatsScoring(<<PtsBlock(3)>>)],
    [proTeam |-> "LAL", injuryStatus |-> NoneStatus,
     stats |-> StatsScoring(<<PtsBlock(1)>>)],
    [proTeam |-> "LAL", injuryStatus |-> "",
     stats |-> StatsScoring(<<PtsBlock(1)>>)],
    \* no injuryStatus attribute; mean -2
    [proTeam |-> "BOS",
     stats |-> StatsScoring(<<TurnoverBlock>>)],
    \* get_fantasy_pts raises KeyError
    [proTeam |-> "BOS", injuryStatus |-> "ACTIVE",
     stats |-> StatsScoring(<<NoFGABlock>>)]
}

\* The roster of test_get_total_number_of_games_respects_daily_cap, with
\* distinct means 1..15
BigRoster ==
    [k \in 1..15 |-> [proTeam |-> "LAL", injuryStatus |-> "ACTIVE",
                      stats |-> StatsScoring(<<PtsBlock(k)>>)]]

Rosters == UNION {[1..n -> PlayerPool] : n \in 0..MaxRoster} \cup {BigRoster}

MainLeagues == {
    \* both teams play every day
    [schedule |-> [d \in 1..8 |-> <<2, 13>>]],
    \* LAL plays the first day only, BOS the second day only
    [schedule |-> <<<<13>>, <<2>>, <<>>, <<>>, <<>>, <<>>, <<>>, <<>>>>]
}

Caps == (0..MaxCap) \cup {5, 9}
CapArgs == {Omitted} \cup {Given(k) : k \in Caps}
AllowArgs == {Omitted, Given(<<"OUT", "ACTIVE">>)}

\* Week 1 has 8 days, every other week 7
MainWeeks == {1, 2}

Init ==
    /\ league \in MainLeagues
    /\ roster \in Rosters
    /\ match_up_week = None
    /\ week = None
    /\ call = None /\ loc = None /\ ret = None
    /\ stats = None /\ fpts = None /\ player = None /\ avg_var = None
    /\ keys = None /\ keys_file = None /\ now = 0 /\ cache_files = None /\ today = None

\* self.roster sorted in place by falling mean
roster_sorted(ro) ==
    IF \E i \in 1..Len(ro) : ~Returned(get_avg_variance_stats(ro[i])) THEN ro
    ELSE LET s == sort_reverse([i \in 1..Len(ro) |->
                                  <<get_avg_variance_stats(ro[i])[2][1], ro[i]>>])
         IN  [i \in 1..Len(ro) |-> s[i][2]]

\* predict sorting the roster itself instead of a list of its own
PredictSortsRoster ==
    /\ week # None
    /\ call = None
    /\ \E daily_active_size \in CapArgs, starting_day \in 0..MaxStart,
          injuryStatusList \in AllowArgs :
        LET r == predict(roster, week, daily_active_size, starting_day, injuryStatusList)
        IN  /\ call' = [op |-> "predict",
                        daily_active_size |-> daily_active_size,
                        starting_day |-> starting_day,
                        injuryStatusList |-> injuryStatusList]
            /\ loc' = r.loc
            /\ ret' = r.ret
    /\ roster' = roster_sorted(roster)
    /\ UNCHANGED <<stats, fpts, player, avg_var, league, match_up_week, week, keys, keys_file, now, cache_files, today>>

Predict ==
    /\ week # None
    /\ call = None
    /\ \E daily_active_size \in CapArgs, starting_day \in 0..MaxStart,
          injuryStatusList \in AllowArgs :
        LET r == predict(roster, week, daily_active_size, starting_day, injuryStatusList)
        IN  /\ call' = [op |-> "predict",
                        daily_active_size |-> daily_active_size,
                        starting_day |-> starting_day,
                        injuryStatusList |-> injuryStatusList]
            /\ loc' = r.loc
            /\ ret' = r.ret
    /\ UNCHANGED <<stats, fpts, player, avg_var, league, match_up_week, week, roster, keys, keys_file, now, cache_files, today>>

GetTotalNumberOfGames ==
    /\ week # None
    /\ call = None
    /\ \E daily_active_size \in CapArgs, starting_day \in 0..MaxStart,
          injuryStatusList \in AllowArgs :
        LET r == get_total_number_of_games(roster, week, daily_active_size,
                                           starting_day, injuryStatusList)
        IN  /\ call' = [op |-> "get_total_number_of_games",
                        daily_active_size |-> daily_active_size,
                        starting_day |-> starting_day,
                        injuryStatusList |-> injuryStatusList]
            /\ loc' = r.loc
            /\ ret' = r.ret
    /\ UNCHANGED <<stats, fpts, player, avg_var, league, match_up_week, week, roster, keys, keys_file, now, cache_files, today>>

Next == NewWeek(MainWeeks) \/ Predict \/ GetTotalNumberOfGames

Spec == Init /\ [][Next]_vars

-----------------------------------------------------------------------------
(* Properties of predict and get_total_number_of_games *)

IsPredict == call # None /\ call.op = "predict"
IsGames == call # None /\ call.op = "get_total_number_of_games"

\* The allow-list and the cap the call runs with
AllowList == IF call.injuryStatusList = Omitted THEN {"ACTIVE"}
             ELSE Elems(call.injuryStatusList[1])
Cap == IF call.daily_active_size # Omitted THEN call.daily_active_size[1]
       ELSE IF call.op = "predict" THEN predict_default_daily_active_size
       ELSE games_default_daily_active_size

\* Roster player i has a game on day d (from 0) of the week
HasGame(i, d) == roster[i].proTeam \in Elems(week.team_game_list[d + 1])

IsOut(p) == "injuryStatus" \in DOMAIN p /\ p.injuryStatus = "OUT"

\* The players with a game on day d who pass the injury filter
Eligible(d) ==
    {i \in 1..Len(roster) :
        /\ HasGame(i, d)
        /\ (IF "injuryStatus" \in DOMAIN roster[i]
            THEN roster[i].injuryStatus ELSE "ACTIVE") \in AllowList}

MeanOf(i) == get_avg_variance_stats(roster[i])[2][1]

RECURSIVE SumOfMeans(_)
SumOfMeans(S) ==
    IF S = {} THEN 0
    ELSE LET x == CHOOSE y \in S : TRUE IN MeanOf(x) + SumOfMeans(S \ {x})

\* C1: on every day predict visits, the day's mean total is the sum of the
\* daily_active_size largest means among the players with a game that day who
\* pass the injury filter (of all of them when they are fewer): the players
\* counted are distinct, eligible, at most daily_active_size, and none left
\* out has a larger mean than one counted.
C1_DayTotalIsTopK ==
    IsPredict =>
        /\ Returned(ret) =>
              {loc[k].day : k \in 1..Len(loc)} = call.starting_day..(num_days(week) - 1)
        /\ \A k \in 1..Len(loc) :
              LET e == loc[k]
                  S == {e.top_stats[j][3] : j \in 1..Len(e.top_stats)}
              IN  /\ Cardinality(S) = Len(e.top_stats)
                  /\ Cardinality(S) = Min(Cap, Cardinality(Eligible(e.day)))
                  /\ S \subseteq Eligible(e.day)
                  /\ \A i \in S, j \in Eligible(e.day) \ S : MeanOf(i) >= MeanOf(j)
                  /\ e.day_points = SumOfMeans(S)

\* 15 eligible players with means 1..15 and a cap of 9: the day totals 7+...+15
C1_Witness ==
    /\ IsPredict
    /\ roster = BigRoster
    /\ call.daily_active_size = Given(9)
    /\ Len(loc) > 0
    /\ Cardinality(Eligible(loc[1].day)) = 15
    /\ Len(loc[1].top_stats) = 9
    /\ loc[1].day_points = Denom * 99

\* r is math.sqrt(v), v in units of 1/Denom and r in units of 1/Prec
IsRootOf(r, v) ==
    /\ r >= 0
    /\ r * r * Denom <= v * Prec * Prec
    /\ (r + 1) * (r + 1) * Denom > v * Prec * Prec

DayPoints == [k \in 1..Len(loc) |-> loc[k].day_points]
DayVariances == [k \in 1..Len(loc) |-> loc[k].day_variance]

\* C2: predict returns (total, std): the days visited are starting_day..last
\* in order, total is the sum of their day mean totals, and std is the square
\* root of the sum of their day variance totals: day variances 4 and 9 give
\* sqrt(13) = 3.60..., not 2 + 3 = 5.
C2_SumOfMeansRootOfSummedVariances ==
    (IsPredict /\ Returned(ret)) =>
        /\ Len(loc) = Max(num_days(week) - call.starting_day, 0)
        /\ \A k \in 1..Len(loc) : loc[k].day = call.starting_day + k - 1
        /\ ret[2][1] = SeqSum(DayPoints)
        /\ IsRootOf(ret[2][2], SeqSum(DayVariances))
        /\ SelectSeq(DayVariances, LAMBDA v : v # 0) = <<4 * Denom, 9 * Denom>>
              => (ret[2][2] * ret[2][2] <= 13 * Prec * Prec /\ ret[2][2] < 5 * Prec)

C2_Witness ==
    /\ IsPredict
    /\ Returned(ret)
    /\ SelectSeq(DayVariances, LAMBDA v : v # 0) = <<4 * Denom, 9 * Denom>>
    /\ ret[2] = <<5 * Denom, 360>>

\* C6: with the allow-list ['ACTIVE'] no player whose injuryStatus is 'OUT'
\* is among the players predict sums or get_total_number_of_games counts on
\* any day; with an allow-list that contains 'OUT' every such player with a
\* game that day is among the eligible ones.
C6_OutFilteredByAllowList ==
    (IsPredict \/ IsGames) =>
        \A k \in 1..Len(loc) :
            LET e == loc[k]
                kept == IF IsPredict THEN Elems(e.players_with_game)
                        ELSE Elems(e.eligible_players)
                out == {i \in 1..Len(roster) : IsOut(roster[i]) /\ HasGame(i, e.day)}
            IN  /\ AllowList = {"ACTIVE"} =>
                      /\ kept \cap out = {}
                      /\ IsPredict =>
                            \A j \in 1..Len(e.top_stats) : ~IsOut(roster[e.top_stats[j][3]])
                      /\ IsGames =>
                            e.counted <= Cardinality({i \in 1..Len(roster) :
                                            HasGame(i, e.day) /\ ~IsOut(roster[i])})
                /\ "OUT" \in AllowList =>
                      /\ out \subseteq kept
                      /\ IsPredict => (Len(e.players_with_game) <= Cap =>
                            out \subseteq {e.top_stats[j][3] : j \in 1..Len(e.top_stats)})
                      /\ IsGames => e.counted = Min(Cardinality(Eligible(e.day)), Cap)

\* An OUT player with a game is left out under the default allow-list
C6_Witness ==
    /\ IsPredict
    /\ Returned(ret)
    /\ AllowList = {"ACTIVE"}
    /\ Len(roster) = 2
    /\ \E k \in 1..Len(loc) :
          /\ IsOut(roster[1]) /\ HasGame(1, loc[k].day)
          /\ ~IsOut(roster[2]) /\ HasGame(2, loc[k].day)
          /\ Len(loc[k].top_stats) = 1
          /\ loc[k].top_stats[1][3] = 2

\* An OUT player with a game is counted when the allow-list contains 'OUT'
C6_WitnessIncluded ==
    /\ IsGames
    /\ "OUT" \in AllowList
    /\ \E k \in 1..Len(loc) :
          \E i \in 1..Len(roster) :
              IsOut(roster[i]) /\ i \in Elems(loc[k].eligible_players)

\* The injury status is absent, None or empty
NoStatus(p) ==
    \/ "injuryStatus" \notin DOMAIN p
    \/ p.injuryStatus = NoneStatus
    \/ p.injuryStatus = ""

\* C7: a player whose injury status is absent, None or empty is treated as
\* 'ACTIVE' by the eligibility filter, so on every day it has a game it is
\* eligible under the default allow-list ['ACTIVE'].
C7_NoStatusIsActive ==
    ((IsPredict \/ IsGames) /\ call.injuryStatusList = Omitted) =>
        \A k \in 1..Len(loc) :
            \A i \in 1..Len(roster) :
                (NoStatus(roster[i]) /\ HasGame(i, loc[k].day)) =>
                    i \in (IF IsPredict THEN Elems(loc[k].players_with_game)
                           ELSE Elems(loc[k].eligible_players))

RECURSIVE CappedGames(_, _)
CappedGames(d, last) ==
    IF d > last THEN 0
    ELSE Min(Cardinality(Eligible(d)), Cap) + CappedGames(d + 1, last)

\* C10: get_total_number_of_games returns the sum over the days
\* starting_day..last of min(eligible players with a game that day,
\* daily_active_size): 15 eligible players on each of 8 days with a cap of 5
\* give 40.
C10_GamesAreCappedPerDay ==
    (IsGames /\ Returned(ret)) =>
        /\ ret[2] = CappedGames(call.starting_day, num_days(week) - 1)
        /\ (/\ roster = BigRoster
            /\ call.daily_active_size = Given(5)
            /\ call.starting_day = 0
            /\ num_days(week) = 8
            /\ \A d \in 0..7 : Cardinality(Eligible(d)) = 15) => ret[2] = 40

C10_Witness ==
    /\ IsGames
    /\ roster = BigRoster
    /\ call.daily_active_size = Given(5)
    /\ call.starting_day = 0
    /\ num_days(week) = 8
    /\ \A d \in 0..7 : Cardinality(Eligible(d)) = 15
    /\ ret = Return(40)

\* The number of players a visited day's entry sums (predict) or counts
\* (get_total_number_of_games)
Counted(e) == IF IsPredict THEN Len(e.top_stats) ELSE e.counted

\* C11: when no cap argument is passed, predict and get_total_number_of_games
\* both cap each day at 9 players: on every day visited the number of players
\* whose score is summed, and the number of games counted, is
\* min(eligible players with a game that day, 9).
C11_DefaultCapIsNine ==
    ((IsPredict \/ IsGames) /\ call.daily_active_size = Omitted) =>
        \A k \in 1..Len(loc) :
            Counted(loc[k]) = Min(Cardinality(Eligible(loc[k].day)), 9)

-----------------------------------------------------------------------------
(* predict_week.py: the loops over league.teams *)

MaxTeams == 2   \* teams of an enumerated league

\* A Python dict as a function on its keys; d[k] = v
dict_set(d, k, v) == [x \in (DOMAIN d) \cup {k} |-> IF x = k THEN v ELSE d[x]]

\* daily_active_size=9 in predict_week's call of predict
predict_week_daily_active_size == 9

\* The locals of one iteration of predict_week's loop over league.teams, p
\* and g being the outcomes of its two predictor calls, or the exception
\* the first of them to raise raised
team_locals(team, p, g) ==
    IF ~Returned(p.ret) THEN p.ret
    ELSE IF ~Returned(g.ret) THEN g.ret
    ELSE Return([team_name |-> team.team_name,
                 predicted_points |-> p.ret[2],
                 number_of_games |-> g.ret[2],
                 predict_days |-> p.loc,
                 games_days |-> g.loc])

\* The caller's day override ignored: every team forecast from day 0
predict_week_team_from_day_0(team, wk, day_of_week_override, injuryStatusList) ==
    team_locals(team,
                predict(team.roster, wk, Given(predict_week_daily_active_size),
                        0, Given(injuryStatusList)),
                get_total_number_of_games(team.roster, wk, Omitted,
                                          day_of_week_override, Given(injuryStatusList)))

\* predict called without daily_active_size: its default instead of 9
predict_week_team_default_size(team, wk, day_of_week_override, injuryStatusList) ==
    team_locals(team,
                predict(team.roster, wk, Omitted,
                        day_of_week_override, Given(injuryStatusList)),
                get_total_number_of_games(team.roster, wk, Omitted,
                                          day_of_week_override, Given(injuryStatusList)))

\* One iteration of predict_week's loop over league.teams
predict_week_team(team, wk, day_of_week_override, injuryStatusList) ==
    team_locals(team,
                predict(team.roster, wk, Given(predict_week_daily_active_size),
                        day_of_week_override, Given(injuryStatusList)),
                get_total_number_of_games(team.roster, wk, Omitted,
                                          day_of_week_override, Given(injuryStatusList)))

RECURSIVE predict_week_loop(_, _, _, _, _, _, _)

\* The two dicts after the iteration with locals it, and the iterations left
predict_week_next(teams, wk, day_of_week_override, injuryStatusList, number_of_games_team_name_map, team_scores, trace, it) ==
    IF ~Returned(it) THEN [ret |-> it, loc |-> trace]
    ELSE predict_week_loop(
             Tail(teams), wk, day_of_week_override, injuryStatusList,
             dict_set(number_of_games_team_name_map, it[2].team_name, it[2].number_of_games),
             dict_set(team_scores, it[2].team_name, it[2].predicted_points),
             Append(trace, it[2]))

\* predict_week's loop over the teams still to visit
predict_week_loop(teams, wk, day_of_week_override, injuryStatusList, number_of_games_team_name_map, team_scores, trace) ==
    IF teams = <<>>
    THEN [ret |-> Return(<<number_of_games_team_name_map, team_scores>>), loc |-> trace]
    ELSE predict_week_next(
             teams, wk, day_of_week_override, injuryStatusList,
             number_of_games_team_name_map, team_scores, trace,
             predict_week_team(Head(teams), wk, day_of_week_override, injuryStatusList))

\* PredictWeekHelper.predict_week; injuryStatusList is optional
predict_week(lg, week_index, day_of_week_override, injuryStatusList) ==
    predict_week_loop(lg.teams, Week(lg, week_index), day_of_week_override,
                      IF injuryStatusList = Omitted THEN <<"ACTIVE">> ELSE injuryStatusList[1],
                      <<>>, <<>>, <<>>)

\* player_stats[:9] in get_remaining_days_cumulative_scores
remaining_days_top == 9

\* The days left counted from day 0, whatever the override
remaining_daily_scores_from_day_0(ro, wk, days, injuryStatusList, daily_scores) ==
    LET all == range(0, num_days(wk))
        its == [k \in 1..Len(all) |->
                   predict_day(ro, wk, all[k], remaining_days_top, injuryStatusList)]
    IN  IF \E k \in 1..Len(all) : ~Returned(its[k]) THEN KeyError
        ELSE Return([k \in 1..Len(all) |->
                        <<its[k][2].day_points, its[k][2].day_variance>>])

\* The loop over the days of one team: daily_scores, or the exception raised
RECURSIVE remaining_daily_scores(_, _, _, _, _)
remaining_daily_scores(ro, wk, days, injuryStatusList, daily_scores) ==
    IF days = <<>> THEN Return(daily_scores)
    ELSE LET it == predict_day(ro, wk, Head(days), remaining_days_top, injuryStatusList)
         IN  IF ~Returned(it) THEN it
             ELSE remaining_daily_scores(
                      ro, wk, Tail(days), injuryStatusList,
                      Append(daily_scores, <<it[2].day_points, it[2].day_variance>>))

\* daily_scores[start_day:], start_day from 0
slice_from(s, start_day) == SubSeq(s, start_day + 1, Len(s))

\* The days up to each start day summed, not the days from it
cumulative_of_prefix(daily_scores) ==
    [i \in 1..Len(daily_scores) |->
        LET rest == SubSeq(daily_scores, 1, i)
        IN  <<SeqSum([k \in 1..Len(rest) |-> rest[k][1]]),
              math_sqrt(SeqSum([k \in 1..Len(rest) |-> rest[k][2]]))>>]

\* The root taken of each day's variance and the roots summed
cumulative_of_roots(daily_scores) ==
    [i \in 1..Len(daily_scores) |->
        LET rest == slice_from(daily_scores, i - 1)
        IN  <<SeqSum([k \in 1..Len(rest) |-> rest[k][1]]),
              SeqSum([k \in 1..Len(rest) |-> math_sqrt(rest[k][2])])>>]

\* The list cumulative of one team: entry start_day is the pair
\* (cumulative_mean, cumulative_std) of daily_scores[start_day:]
cumulative(daily_scores) ==
    [i \in 1..Len(daily_scores) |->
        LET rest == slice_from(daily_scores, i - 1)
        IN  <<SeqSum([k \in 1..Len(rest) |-> rest[k][1]]),
              math_sqrt(SeqSum([k \in 1..Len(rest) |-> rest[k][2]]))>>]

RECURSIVE remaining_days_loop(_, _, _, _, _, _)
remaining_days_loop(teams, wk, day_of_week_override, injuryStatusList, daily_predictions, trace) ==
    IF teams = <<>>
    THEN [ret |-> Return([n \in DOMAIN daily_predictions |->
                              cumulative(daily_predictions[n])]),
          loc |-> trace]
    ELSE LET team == Head(teams)
             ds == remaining_daily_scores(team.roster, wk,
                       range(day_of_week_override, num_days(wk)), injuryStatusList, <<>>)
         IN  IF ~Returned(ds) THEN [ret |-> ds, loc |-> trace]
             ELSE remaining_days_loop(
                      Tail(teams), wk, day_of_week_override, injuryStatusList,
                      dict_set(daily_predictions, team.team_name, ds[2]),
                      Append(trace, [team_name |-> team.team_name, daily_scores |-> ds[2]]))

\* get_remaining_days_cumulative_scores; injuryStatusList is optional
get_remaining_days_cumulative_scores(lg, week_index, day_of_week_override, injuryStatusList) ==
    remaining_days_loop(lg.teams, Week(lg, week_index), day_of_week_override,
                        IF injuryStatusList = Omitted THEN <<"ACTIVE">> ELSE injuryStatusList[1],
                        <<>>, <<>>)

-----------------------------------------------------------------------------
(* A league with its teams and the calls of predict_week.py *)

Player(proTeam, injuryStatus, pts) ==
    [proTeam |-> proTeam, injuryStatus |-> injuryStatus,
     stats |-> StatsScoring([i \in 1..Len(pts) |-> PtsBlock(pts[i])])]

\* One player more than the 9 a day counts, with distinct means 1..10
TenRoster == SubSeq(BigRoster, 1, 10)

TeamRosters == {
    <<>>,
    \* mean 2, variance 4 and mean 3, variance 9
    <<Player("LAL", "ACTIVE", <<0, 2, 4>>), Player("BOS", "ACTIVE", <<0, 3, 6>>)>>,
    \* out, mean 3; no injuryStatus attribute, mean -2
    <<Player("LAL", "OUT", <<3>>),
      [proTeam |-> "BOS", stats |-> StatsScoring(<<TurnoverBlock>>)]>>,
    TenRoster,
    \* get_fantasy_pts raises KeyError
    <<[proTeam |-> "BOS", injuryStatus |-> "ACTIVE",
       stats |-> StatsScoring(<<NoFGABlock>>)]>>
}

\* league.teams: each team has a team_name and a roster
Teams ==
    [team_name : {"Team A"}, roster : TeamRosters]
        \cup {[team_name |-> "Team B", roster |-> TenRoster]}

TeamLeagues ==
    {[schedule |-> lg.schedule, teams |-> ts] :
        lg \in MainLeagues, ts \in UNION {[1..n -> Teams] : n \in 0..MaxTeams}}

InitLeague ==
    /\ league \in TeamLeagues
    /\ match_up_week = None
    /\ week = None
    /\ NoCalls

PredictWeek ==
    /\ call = None
    /\ \E week_index \in MainWeeks, day_of_week_override \in 0..MaxStart,
          injuryStatusList \in AllowArgs :
        \E r \in {predict_week(league, week_index, day_of_week_override, injuryStatusList)} :
            /\ call' = [op |-> "predict_week",
                        week_index |-> week_index,
                        day_of_week_override |-> day_of_week_override,
                        injuryStatusList |-> injuryStatusList]
            /\ match_up_week' = week_index
            /\ week' = Week(league, week_index)
            /\ loc' = r.loc
            /\ ret' = r.ret
    /\ UNCHANGED <<stats, fpts, player, avg_var, league, roster, keys, keys_file, now, cache_files, today>>

GetRemainingDaysCumulativeScores ==
    /\ call = None
    /\ \E week_index \in MainWeeks, day_of_week_override \in 0..MaxStart,
          injuryStatusList \in AllowArgs :
        \E r \in {get_remaining_days_cumulative_scores(
                     league, week_index, day_of_week_override, injuryStatusList)} :
            /\ call' = [op |-> "get_remaining_days_cumulative_scores",
                        week_index |-> week_index,
                        day_of_week_override |-> day_of_week_override,
                        injuryStatusList |-> injuryStatusList]
            /\ match_up_week' = week_index
            /\ week' = Week(league, week_index)
            /\ loc' = r.loc
            /\ ret' = r.ret
    /\ UNCHANGED <<stats, fpts, player, avg_var, league, roster, keys, keys_file, now, cache_files, today>>

NextLeague == PredictWeek \/ GetRemainingDaysCumulativeScores

SpecLeague == InitLeague /\ [][NextLeague]_vars

IsPredictWeek == call # None /\ call.op = "predict_week"
IsRemainingDays == call # None /\ call.op = "get_remaining_days_cumulative_scores"

\* The allow-list and the day override the call runs with
CallAllow == IF call.injuryStatusList = Omitted THEN {"ACTIVE"}
             ELSE Elems(call.injuryStatusList[1])
CallDays == range(call.day_of_week_override, num_days(week))

\* The players of roster ro with a game on day d (from 0) of week wk whose
\* injury status is in A
EligibleOf(ro, wk, d, A) ==
    {i \in 1..Len(ro) :
        /\ ro[i].proTeam \in Elems(wk.team_game_list[d + 1])
        /\ (IF "injuryStatus" \in DOMAIN ro[i] THEN ro[i].injuryStatus ELSE "ACTIVE") \in A}

\* What get_avg_variance_stats returns for each player of ro: (mean,
\* variance), and (0, 0) in place of an exception
MeansOf(ro) ==
    [i \in 1..Len(ro) |->
        LET r == get_avg_variance_stats(ro[i])
        IN  IF Returned(r) THEN r[2] ELSE <<0, 0>>]

\* The k players of S with the largest means mv[i][1], the earlier in the
\* roster first among equal means: those that fewer than k players precede
TopOf(mv, S, k) ==
    {i \in S : Cardinality({j \in S : \/ mv[j][1] > mv[i][1]
                                      \/ mv[j][1] = mv[i][1] /\ j < i}) < k}

\* The sum of component c of mv over the players of S
RECURSIVE SumIn(_, _, _)
SumIn(mv, S, c) ==
    IF S = {} THEN 0
    ELSE LET x == CHOOSE y \in S : TRUE IN mv[x][c] + SumIn(mv, S \ {x}, c)

\* Day d: (mean total, variance total, games counted), those of the 9
\* eligible players with the largest means
TotalsOf(mv, top) == <<SumIn(mv, top, 1), SumIn(mv, top, 2), Cardinality(top)>>

DayTotals(ro, mv, wk, d, A) == TotalsOf(mv, TopOf(mv, EligibleOf(ro, wk, d, A), 9))

AddTotals(acc, t) == <<acc[1] + t[1], acc[2] + t[2], acc[3] + t[3]>>

RECURSIVE TotalsOver(_, _, _, _, _, _)
TotalsOver(ro, mv, wk, d, A, acc) ==
    IF d >= num_days(wk) THEN acc
    ELSE TotalsOver(ro, mv, wk, d + 1, A, AddTotals(acc, DayTotals(ro, mv, wk, d, A)))

TotalsFrom(ro, mv, wk, d, A) == TotalsOver(ro, mv, wk, d, A, <<0, 0, 0>>)

TeamNamesOf(teams) == {teams[i].team_name : i \in 1..Len(teams)}

\* The last team of league.teams named n
LastNamed(n) ==
    CHOOSE i \in 1..Len(league.teams) :
        /\ league.teams[i].team_name = n
        /\ \A j \in (i + 1)..Len(league.teams) : league.teams[j].team_name # n

\* The forecast and the game count of team i agree with what the maps hold
\* under key n
HoldsTotals(n, i, t) ==
    /\ ret[2][2][n] = loc[i].predicted_points
    /\ ret[2][1][n] = loc[i].number_of_games
    /\ ret[2][2][n][1] = t[1]
    /\ IsRootOf(ret[2][2][n][2], t[2])
    /\ ret[2][1][n] = t[3]

HoldsResultsOf(n, i) ==
    HoldsTotals(n, i, TotalsFrom(league.teams[i].roster, MeansOf(league.teams[i].roster),
                                 week, call.day_of_week_override, CallAllow))

\* C12: predict_week returns two mappings with the same key set, one key
\* (the team's name) per team of league.teams; the score map holds for each
\* team what that team's predict returned for cap 9, the caller's day
\* override and allow-list, and the games map what its
\* get_total_number_of_games returned for the same override and allow-list.
C12_OneKeyPerTeam ==
    (IsPredictWeek /\ Returned(ret)) =>
        /\ DOMAIN ret[2][1] = DOMAIN ret[2][2]
        /\ DOMAIN ret[2][2] = TeamNamesOf(league.teams)
        /\ Cardinality(DOMAIN ret[2][2]) = Len(league.teams)
        /\ Len(loc) = Len(league.teams)
        /\ \A i \in 1..Len(league.teams) :
              HoldsResultsOf(league.teams[i].team_name, i)

\* C12 as amended: the two mappings have the same key set, one key per
\* team name of league.teams, and under each name they hold the forecast
\* and the game count of the last team of that name (of the team itself
\* when no later team shares its name).
C12_OneKeyPerTeamName ==
    (IsPredictWeek /\ Returned(ret)) =>
        /\ DOMAIN ret[2][1] = DOMAIN ret[2][2]
        /\ DOMAIN ret[2][2] = TeamNamesOf(league.teams)
        /\ Len(loc) = Len(league.teams)
        /\ \A n \in TeamNamesOf(league.teams) : HoldsResultsOf(n, LastNamed(n))

\* Two teams of different names, forecasts and game counts, from day 1 on
C12_Witness ==
    /\ IsPredictWeek
    /\ Returned(ret)
    /\ call.day_of_week_override = 1
    /\ Len(league.teams) = 2
    /\ league.teams[1].team_name = "Team A"
    /\ league.teams[2].team_name = "Team B"
    /\ DOMAIN ret[2][2] = {"Team A", "Team B"}
    /\ ret[2][2]["Team A"] = <<7 * 5 * Denom, 953>>
    /\ ret[2][2]["Team B"] = <<7 * 54 * Denom, 0>>
    /\ ret[2][1]["Team A"] = 14
    /\ ret[2][1]["Team B"] = 63

\* The totals of each of the days ds of roster ro, in order
DayTotalsList(ro, mv, wk, ds, A) == [k \in 1..Len(ds) |-> DayTotals(ro, mv, wk, ds[k], A)]

\* The totals of each day of the call of team i
TeamDays(i) ==
    DayTotalsList(league.teams[i].roster, MeansOf(league.teams[i].roster),
                  week, CallDays, CallAllow)

\* The first entry of l totals every day of dt and the last entry the last
\* day alone
IsEarliestFirst(l, dt) ==
    Len(l) > 0 =>
        /\ l[1][1] = SeqSum([k \in 1..Len(dt) |-> dt[k][1]])
        /\ l[Len(l)][1] = dt[Len(dt)][1]

\* C13: for every team, the list get_remaining_days_cumulative_scores
\* returns has exactly (days of the week window - day_of_week_override)
\* entries, 8 for the 8-day window of week 1 with override 0, the earliest
\* start day first: the first entry totals every day from the override day
\* on and the last entry the last day alone.
C13_OneEntryPerRemainingDay ==
    (IsRemainingDays /\ Returned(ret)) =>
        /\ DOMAIN ret[2] = TeamNamesOf(league.teams)
        /\ \A i \in 1..Len(league.teams) :
              LET l == ret[2][league.teams[i].team_name]
              IN  /\ Len(l) = num_days(week) - call.day_of_week_override
                  /\ (call.week_index = 1 /\ call.day_of_week_override = 0) => Len(l) = 8
        /\ \A n \in DOMAIN ret[2] : IsEarliestFirst(ret[2][n], TeamDays(LastNamed(n)))

\* Week 1 from day 0: 8 entries, from 8 days of 5 points down to one
C13_Witness ==
    /\ IsRemainingDays
    /\ Returned(ret)
    /\ call.week_index = 1
    /\ call.day_of_week_override = 0
    /\ "Team A" \in DOMAIN ret[2]
    /\ Len(ret[2]["Team A"]) = 8
    /\ ret[2]["Team A"][1][1] = 8 * 5 * Denom
    /\ ret[2]["Team A"][8][1] = 5 * Denom

\* daily_scores holds the mean total and the variance total of each day of dt
IsDailyScoresOf(daily_scores, dt) ==
    /\ Len(daily_scores) = Len(dt)
    /\ \A k \in 1..Len(dt) : daily_scores[k] = <<dt[k][1], dt[k][2]>>

\* Entry k of l is the sum of the mean totals of the days k..last of dt and
\* the root of the sum of their variance totals
IsSuffixTotalsOf(l, dt) ==
    /\ Len(l) = Len(dt)
    /\ \A k \in 1..Len(dt) :
          /\ l[k][1] = SeqSum([j \in 1..(Len(dt) - k + 1) |-> dt[k + j - 1][1]])
          /\ IsRootOf(l[k][2], SeqSum([j \in 1..(Len(dt) - k + 1) |-> dt[k + j - 1][2]]))
    /\ Len(dt) > 0 => /\ l[Len(dt)][1] = dt[Len(dt)][1]
                      /\ IsRootOf(l[Len(dt)][2], dt[Len(dt)][2])

\* C14: entry i of a team's remaining-days list is (the sum of the day mean
\* totals of the days i..last, the square root of the sum of the day
\* variance totals of the days i..last), each day's totals being those of
\* the top 9 eligible players with a game that day; the last entry covers
\* the last day alone.  The list held under a name is that of the last team
\* of that name.
C14_EntryIsSuffixTotal ==
    (IsRemainingDays /\ Returned(ret)) =>
        /\ Len(loc) = Len(league.teams)
        /\ \A i \in 1..Len(league.teams) :
              /\ loc[i].team_name = league.teams[i].team_name
              /\ IsDailyScoresOf(loc[i].daily_scores, TeamDays(i))
        /\ \A n \in DOMAIN ret[2] : IsSuffixTotalsOf(ret[2][n], TeamDays(LastNamed(n)))

\* Days of mean 5 and variance 13 each: the entry of the last two days is
\* (10, sqrt(26) = 5.09...) and the entry of the last day (5, sqrt(13)),
\* and ten players with a game leave the one of mean 1 out: 2 + ... + 10
C14_Witness ==
    /\ IsRemainingDays
    /\ Returned(ret)
    /\ DOMAIN ret[2] = {"Team A", "Team B"}
    /\ Len(ret[2]["Team A"]) = 7
    /\ ret[2]["Team A"][6] = <<10 * Denom, 509>>
    /\ ret[2]["Team A"][7] = <<5 * Denom, 360>>
    /\ ret[2]["Team B"][7] = <<54 * Denom, 0>>

\* If every day total of dt is >= 0, the means of l never rise
FallsWhenNonNegative(l, dt) ==
    (\A k \in 1..Len(dt) : dt[k][1] >= 0)
        => \A k \in 1..(Len(l) - 1) : l[k][1] >= l[k + 1][1]

\* C15: if every day's mean total of a team is >= 0, the cumulative means
\* of that team's remaining-days list are non-increasing as the start index
\* increases.
C15_CumulativeMeansNonIncreasing ==
    (IsRemainingDays /\ Returned(ret)) =>
        \A n \in DOMAIN ret[2] : FallsWhenNonNegative(ret[2][n], TeamDays(LastNamed(n)))

\* A team with days of mean 3 and days of mean 0: the list falls, and stays
\* level over the days without a game
C15_Witness ==
    /\ IsRemainingDays
    /\ Returned(ret)
    /\ "Team A" \in DOMAIN ret[2]
    /\ Len(ret[2]["Team A"]) = 8
    /\ \A k \in 1..8 : TeamDays(LastNamed("Team A"))[k][1] >= 0
    /\ ret[2]["Team A"][1][1] = 5 * Denom
    /\ ret[2]["Team A"][2][1] = 3 * Denom
    /\ ret[2]["Team A"][3][1] = 0
    /\ ret[2]["Team A"][4][1] = 0

\* Some player of team i eligible on day d has a stat block on which
\* get_avg_variance_stats raises
RaisesOn(i, d) ==
    \E j \in EligibleOf(league.teams[i].roster, week, d, CallAllow) :
        ~Returned(get_avg_variance_stats(league.teams[i].roster[j]))

NoneEligible(i, d) == EligibleOf(league.teams[i].roster, week, d, CallAllow) = {}

\* C17: a day on which no roster player both has a game and passes the
\* injury filter contributes (0, 0) to predict and to the remaining-days
\* table and 0 to the game count, and raises no error (a call raises only
\* for an eligible player); a team with an empty roster gets the forecast
\* (0, 0) and the game count 0.
C17_EmptyDayContributesZero ==
    /\ (IsPredictWeek \/ IsRemainingDays) =>
          /\ ~Returned(ret) =>
                \E i \in 1..Len(league.teams) : \E k \in 1..Len(CallDays) :
                    RaisesOn(i, CallDays[k])
          /\ (\A i \in 1..Len(league.teams) : \A k \in 1..Len(CallDays) :
                 NoneEligible(i, CallDays[k])) => Returned(ret)
    /\ IsPredictWeek =>
          \A i \in 1..Len(loc) :
              /\ \A k \in 1..Len(loc[i].predict_days) :
                    NoneEligible(i, loc[i].predict_days[k].day) =>
                        /\ loc[i].predict_days[k].day_points = 0
                        /\ loc[i].predict_days[k].day_variance = 0
              /\ \A k \in 1..Len(loc[i].games_days) :
                    NoneEligible(i, loc[i].games_days[k].day) =>
                        loc[i].games_days[k].counted = 0
              /\ (\A k \in 1..Len(CallDays) : NoneEligible(i, CallDays[k])) =>
                    /\ loc[i].predicted_points = <<0, 0>>
                    /\ loc[i].number_of_games = 0
              /\ league.teams[i].roster = <<>> =>
                    /\ loc[i].predicted_points = <<0, 0>>
                    /\ loc[i].number_of_games = 0
                    /\ Returned(ret) /\ LastNamed(loc[i].team_name) = i =>
                          /\ ret[2][2][loc[i].team_name] = <<0, 0>>
                          /\ ret[2][1][loc[i].team_name] = 0
    /\ IsRemainingDays =>
          \A i \in 1..Len(loc) :
              /\ \A k \in 1..Len(loc[i].daily_scores) :
                    NoneEligible(i, CallDays[k]) => loc[i].daily_scores[k] = <<0, 0>>
              /\ (league.teams[i].roster = <<>> /\ Returned(ret)
                    /\ LastNamed(loc[i].team_name) = i) =>
                    \A k \in 1..Len(ret[2][loc[i].team_name]) :
                        ret[2][loc[i].team_name][k] = <<0, 0>>

\* A team without players beside a team whose ten players have a game on
\* day 0 only: the empty days add nothing to the 54 points and 9 games
C17_Witness ==
    /\ IsPredictWeek
    /\ Returned(ret)
    /\ Len(league.teams) = 2
    /\ league.teams[1].roster = <<>>
    /\ league.teams[2].roster = TenRoster
    /\ call.day_of_week_override = 0
    /\ NoneEligible(2, 1)
    /\ loc[2].predict_days[2].day_points = 0
    /\ loc[2].games_days[2].counted = 0
    /\ ret[2][2] = ("Team A" :> <<0, 0>>) @@ ("Team B" :> <<54 * Denom, 0>>)
    /\ ret[2][1] = ("Team A" :> 0) @@ ("Team B" :> 9)

\* The remaining-days table of a team whose only game day is day 0
C17_WitnessRemainingDays ==
    /\ IsRemainingDays
    /\ Returned(ret)
    /\ Len(league.teams) = 1
    /\ league.teams[1] = [team_name |-> "Team B", roster |-> TenRoster]
    /\ Len(loc[1].daily_scores) = 8
    /\ loc[1].daily_scores[1] = <<54 * Denom, 0>>
    /\ \A k \in 2..8 : NoneEligible(1, k - 1) /\ loc[1].daily_scores[k] = <<0, 0>>
    /\ ret[2]["Team B"][2] = <<0, 0>>

-----------------------------------------------------------------------------
(* auth/api_key.py: APIKeyManager *)

MaxKeys == 1        \* keys generate_key hands out
MaxRateLimit == 2   \* largest rate_limit passed to generate_key
MaxRequests == 2    \* largest requests_this_hour a key is brought to
MaxHour == 1        \* hours that pass

\* rate_limit: int = 100 of generate_key and of APIKeyInfo
default_rate_limit == 100

\* A key fba_<token> is denoted by a number; secrets.token_urlsafe(32)
\* gives a token no earlier key has
new_key(ks) == Cardinality(DOMAIN ks) + 1

\* APIKeyInfo(key, name, created_at, rate_limit=rate_limit), the other
\* fields at their defaults
APIKeyInfo(key, name, created_at, rate_limit) ==
    [key |-> key, name |-> name, created_at |-> created_at, last_used |-> None,
     active |-> TRUE, rate_limit |-> rate_limit, requests_this_hour |-> 0]

\* generate_key: the keys after the call and the key returned
generate_key(ks, name, rate_limit, utcnow) ==
    LET key == new_key(ks)
        key_info == APIKeyInfo(key, name, utcnow,
                               IF rate_limit = Omitted THEN default_rate_limit
                               ELSE rate_limit[1])
    IN  [keys |-> dict_set(ks, key, key_info), ret |-> Return(key)]

verify_key(ks, key) ==
    IF key \notin DOMAIN ks THEN Return(FALSE) ELSE Return(ks[key].active)

\* self.keys.get(key)
get_key_info(ks, key) == IF key \in DOMAIN ks THEN Return(ks[key]) ELSE Return(None)

\* A second revoke_key gives the key back
revoke_key_toggles(ks, key) ==
    IF key \in DOMAIN ks
    THEN [keys |-> [ks EXCEPT ![key].active = ~ks[key].active], ret |-> Return(TRUE)]
    ELSE [keys |-> ks, ret |-> Return(FALSE)]

revoke_key(ks, key) ==
    IF key \in DOMAIN ks
    THEN [keys |-> [ks EXCEPT ![key].active = FALSE], ret |-> Return(TRUE)]
    ELSE [keys |-> ks, ret |-> Return(FALSE)]

\* One request more than the limit let through
check_rate_limit_inclusive(ks, key) ==
    IF key \notin DOMAIN ks THEN Return(FALSE)
    ELSE Return(ks[key].requests_this_hour <= ks[key].rate_limit)

check_rate_limit(ks, key) ==
    IF key \notin DOMAIN ks THEN Return(FALSE)
    ELSE Return(ks[key].requests_this_hour < ks[key].rate_limit)

\* increment_usage: the keys after the call
increment_usage(ks, key, utcnow) ==
    IF key \in DOMAIN ks
    THEN [ks EXCEPT ![key].requests_this_hour = @ + 1,
                    ![key].last_used = Given(utcnow)]
    ELSE ks

\* The keys a caller presents: those generate_key can hand out, and one it
\* never does
KeyArgs == 1..(MaxKeys + 1)

RateLimitArgs == {Omitted} \cup {Given(l) : l \in 0..MaxRateLimit}

\* APIKeyManager(keys_file) where no keys file exists yet
InitKeys ==
    /\ keys = <<>>
    /\ keys_file = None
    /\ now = 0 /\ cache_files = None /\ today = None
    /\ call = None /\ ret = None
    /\ loc = None /\ roster = <<>>
    /\ league = None /\ match_up_week = None /\ week = None
    /\ stats = None /\ fpts = None /\ player = None /\ avg_var = None

Others == <<stats, fpts, player, avg_var, league, match_up_week, week, roster, loc>>

GenerateKey ==
    /\ Cardinality(DOMAIN keys) < MaxKeys
    /\ \E rate_limit \in RateLimitArgs :
        \E r \in {generate_key(keys, "Test Key", rate_limit, now)} :
            /\ call' = [op |-> "generate_key", rate_limit |-> rate_limit]
            /\ keys' = r.keys
            /\ keys_file' = Given(r.keys)
            /\ ret' = r.ret
    /\ UNCHANGED <<Others, now, cache_files, today>>

VerifyKey ==
    /\ \E key \in KeyArgs :
        /\ call' = [op |-> "verify_key", key |-> key]
        /\ ret' = verify_key(keys, key)
    /\ UNCHANGED <<Others, keys, keys_file, now, cache_files, today>>

GetKeyInfo ==
    /\ \E key \in KeyArgs :
        /\ call' = [op |-> "get_key_info", key |-> key]
        /\ ret' = get_key_info(keys, key)
    /\ UNCHANGED <<Others, keys, keys_file, now, cache_files, today>>

RevokeKey ==
    /\ \E key \in KeyArgs :
        \E r \in {revoke_key(keys, key)} :
            /\ call' = [op |-> "revoke_key", key |-> key]
            /\ keys' = r.keys
            /\ keys_file' = IF key \in DOMAIN keys THEN Given(r.keys) ELSE keys_file
            /\ ret' = r.ret
    /\ UNCHANGED <<Others, now, cache_files, today>>

CheckRateLimit ==
    /\ \E key \in KeyArgs :
        /\ call' = [op |-> "check_rate_limit", key |-> key]
        /\ ret' = check_rate_limit(keys, key)
    /\ UNCHANGED <<Others, keys, keys_file, now, cache_files, today>>

IncrementUsage ==
    /\ \E key \in KeyArgs :
        /\ key \in DOMAIN keys => keys[key].requests_this_hour < MaxRequests
        /\ call' = [op |-> "increment_usage", key |-> key]
        /\ keys' = increment_usage(keys, key, now)
        /\ keys_file' = IF key \in DOMAIN keys THEN Given(keys') ELSE keys_file
        /\ ret' = Return(None)
    /\ UNCHANGED <<Others, now, cache_files, today>>

\* An hour passes; no code of the manager runs
HourPasses ==
    /\ now < MaxHour
    /\ now' = now + 1
    /\ call' = None
    /\ ret' = None
    /\ UNCHANGED <<Others, keys, keys_file, cache_files, today>>

NextKeys ==
    \/ GenerateKey \/ VerifyKey \/ GetKeyInfo \/ RevokeKey
    \/ CheckRateLimit \/ IncrementUsage \/ HourPasses

SpecKeys == InitKeys /\ [][NextKeys]_vars

Called(op, key) == [op |-> op, key |-> key]

\* Every key but k is left as it was
OthersKept(k) ==
    /\ DOMAIN keys' = DOMAIN keys
    /\ \A j \in DOMAIN keys \ {k} : keys'[j] = keys[j]

\* C18: once revoke_key(k) has returned True for an existing key k, the key
\* is inactive in every later state (no operation makes it active again),
\* verify_key(k) is False and get_key_info(k) still returns its record;
\* revoke_key on an unknown key returns False and changes no key.
C18_RevokedStaysRevoked ==
    [][/\ \A k \in DOMAIN keys :
              ~keys[k].active => (k \in DOMAIN keys' /\ ~keys'[k].active)
       /\ \A k \in KeyArgs :
              /\ call' = Called("revoke_key", k) =>
                    IF k \in DOMAIN keys
                    THEN /\ ret' = Return(TRUE)
                         /\ ~keys'[k].active
                         /\ OthersKept(k)
                    ELSE /\ ret' = Return(FALSE)
                         /\ keys' = keys
              /\ (call' = Called("verify_key", k) /\ k \in DOMAIN keys /\ ~keys[k].active)
                    => ret' = Return(FALSE)
              /\ (call' = Called("get_key_info", k) /\ k \in DOMAIN keys)
                    => (ret' = Return(keys[k]) /\ keys' = keys)]_vars

\* A revoked key, used once before, an hour later: verify_key is False
C18_Witness ==
    /\ call = Called("verify_key", 1)
    /\ ret = Return(FALSE)
    /\ 1 \in DOMAIN keys
    /\ ~keys[1].active
    /\ keys[1].requests_this_hour = 1
    /\ now = 1

\* C19: for a key with rate limit L check_rate_limit returns True while
\* fewer than L calls of increment_usage are recorded for the key and False
\* once L are; each increment_usage of a known key records one call more
\* and nothing else changes the record; for an unknown key check_rate_limit
\* returns False and increment_usage changes nothing.
C19_RateLimitCountsUsage ==
    [][\A k \in KeyArgs :
          /\ call' = Called("check_rate_limit", k) =>
                /\ keys' = keys
                /\ IF k \in DOMAIN keys
                   THEN ret' = Return(keys[k].requests_this_hour < keys[k].rate_limit)
                   ELSE ret' = Return(FALSE)
          /\ call' = Called("increment_usage", k) =>
                IF k \in DOMAIN keys
                THEN /\ keys'[k].requests_this_hour = keys[k].requests_this_hour + 1
                     /\ keys'[k].rate_limit = keys[k].rate_limit
                     /\ OthersKept(k)
                ELSE keys' = keys /\ keys_file' = keys_file
          /\ (k \in DOMAIN keys /\ call' # Called("increment_usage", k)) =>
                /\ keys'[k].requests_this_hour = keys[k].requests_this_hour
                /\ keys'[k].rate_limit = keys[k].rate_limit]_vars

\* The key of test_key_rate_limit: limit 2, two calls recorded, refused
C19_Witness ==
    /\ call = Called("check_rate_limit", 1)
    /\ ret = Return(FALSE)
    /\ 1 \in DOMAIN keys
    /\ keys[1].rate_limit = 2
    /\ keys[1].requests_this_hour = 2

\* The last request of key k was in an earlier hour, or there was none
NoRequestThisHour(k) == keys[k].last_used = None \/ keys[k].last_used[1] < now

\* C20: the rate limit is per hour: requests_this_hour counts only the
\* requests of the current hour, so a key with a positive limit and no
\* request in the current hour is admitted by check_rate_limit, whatever it
\* was refused for in an earlier hour.
C20_RateLimitIsPerHour ==
    \A k \in DOMAIN keys :
        (/\ call = Called("check_rate_limit", k)
         /\ NoRequestThisHour(k)
         /\ keys[k].rate_limit > 0) => ret = Return(TRUE)

-----------------------------------------------------------------------------
(* auth/authz.py and auth/decorators.py: require_api_key *)

\* The values of APITier
APITierValues == {"basic", "premium", "enterprise"}

\* "{method} {path}".split("/"): the method, then what follows each slash
endpoint_parts(method, path) == <<method>> \o path

\* The parts of a permission that start with "{" and end with "}"
Placeholders == {"{team_id}", "{scoring_period}", "{week_index}"}

BasicPermissions == {
    <<"GET", "">>,
    <<"GET", "api", "v1", "health">>,
    <<"GET", "privacy">>,
    <<"POST", "api", "v1", "predictions", "calculate">>,
    <<"POST", "api", "v1", "predictions", "week-analysis">>,
    <<"POST", "api", "v1", "scout", "players">>,
    <<"GET", "api", "v1", "scout", "teams">>,
    <<"POST", "api", "v1", "scout", "free-agents">>,
    <<"POST", "api", "v1", "team", "{team_id}">>,
    <<"POST", "api", "v1", "team", "{team_id}", "roster">>,
    <<"POST", "api", "v1", "players-playing", "{scoring_period}">>,
    <<"POST", "api", "v1", "scoreboard", "{week_index}">>
}

\* "*".split("/")
Wildcard == <<"*">>

\* TIER_PERMISSIONS, PREMIUM updated with BASIC
TIER_PERMISSIONS ==
    [tier \in APITierValues |->
        CASE tier = "basic" -> BasicPermissions
          [] tier = "premium" -> BasicPermissions
          [] tier = "enterprise" -> {Wildcard}]

_endpoint_matches(endpoint, pattern) ==
    /\ Len(endpoint) = Len(pattern)
    /\ \A i \in 1..Len(endpoint) :
          pattern[i] \in Placeholders \/ endpoint[i] = pattern[i]

check_endpoint_access(tier, method, path) ==
    LET permissions == TIER_PERMISSIONS[tier]
        endpoint == endpoint_parts(method, path)
    IN  \/ Wildcard \in permissions
        \/ endpoint \in permissions
        \/ \E perm \in permissions : _endpoint_matches(endpoint, perm)

\* The empty string, among the keys a request carries
EmptyKey == 0

\* not api_key
not_key(api_key) == api_key = Omitted \/ api_key[1] = EmptyKey

\* a or b
or_key(a, b) == IF not_key(a) THEN b ELSE a

\* The key require_api_key takes from the request: the Bearer token, else
\* the X-API-Key header or the api_key query parameter, else, for a POST,
\* the api_key of the body
api_key_of(request) ==
    LET bearer == IF request.authorization # Omitted /\ request.authorization[1].bearer
                  THEN Given(request.authorization[1].rest)
                  ELSE Omitted
        header == IF not_key(bearer)
                  THEN or_key(request.x_api_key, request.args_api_key)
                  ELSE bearer
    IN  IF not_key(header) /\ request.method = "POST"
        THEN request.json_api_key
        ELSE header

\* jsonify({...}), status
Response(status, message) == Return([status |-> status, message |-> message])

\* What the wrapped endpoint function returns
EndpointResult == Return([status |-> 200, message |-> "endpoint"])

\* decorated_function: the keys after the request, the calls it made in
\* order, and what it returned or raised
require_api_key(ks, request, utcnow) ==
    LET api_key == api_key_of(request)
        key == api_key[1]
        key_info == get_key_info(ks, key)[2]
    IN  IF not_key(api_key)
        THEN [keys |-> ks, trace |-> <<>>,
              ret |-> Response(401, "API key required")]
        ELSE IF ~verify_key(ks, key)[2]
        THEN [keys |-> ks, trace |-> <<"verify_key">>,
              ret |-> Response(401, "Invalid or revoked API key")]
        ELSE IF "tier" \notin DOMAIN key_info
        THEN [keys |-> ks, trace |-> <<"verify_key", "get_key_info">>,
              ret |-> Raise("AttributeError")]
        ELSE IF key_info.tier \notin APITierValues
        THEN [keys |-> ks, trace |-> <<"verify_key", "get_key_info">>,
              ret |-> Raise("ValueError")]
        ELSE IF ~check_endpoint_access(key_info.tier, request.method, request.path)
        THEN [keys |-> ks,
              trace |-> <<"verify_key", "get_key_info", "check_endpoint_access">>,
              ret |-> Response(403, "Access denied")]
        ELSE IF ~check_rate_limit(ks, key)[2]
        THEN [keys |-> ks,
              trace |-> <<"verify_key", "get_key_info", "check_endpoint_access",
                          "check_rate_limit", "get_key_info">>,
              ret |-> Response(429, "Rate limit exceeded")]
        ELSE [keys |-> increment_usage(ks, key, utcnow),
              trace |-> <<"verify_key", "get_key_info", "check_endpoint_access",
                          "check_rate_limit", "increment_usage", "get_key_info", "f">>,
              ret |-> EndpointResult]

\* The keys a request carries: the empty string and the keys of KeyArgs
RequestKeys == {EmptyKey} \cup KeyArgs

\* Endpoints: two of the basic tier, one with a parameter, and one of no tier
EndpointArgs == {
    [method |-> "POST", path |-> <<"api", "v1", "predictions", "calculate">>],
    [method |-> "POST", path |-> <<"api", "v1", "team", "1">>],
    [method |-> "GET", path |-> <<"api", "v1", "scout", "teams">>],
    [method |-> "GET", path |-> <<"api", "v1", "admin", "keys">>]
}

Request(e, authorization, x_api_key, args_api_key, json_api_key) ==
    [method |-> e.method, path |-> e.path, authorization |-> authorization,
     x_api_key |-> x_api_key, args_api_key |-> args_api_key,
     json_api_key |-> json_api_key]

Authorization(bearer, rest) == Given([bearer |-> bearer, rest |-> rest])

\* Requests that carry no key, or one key in one place, or a Bearer token
\* and another key in the X-API-Key header
Requests ==
    UNION {{Request(e, Omitted, Omitted, Omitted, Omitted)}
           \cup UNION {{Request(e, Authorization(TRUE, k), Omitted, Omitted, Omitted),
                        Request(e, Authorization(FALSE, k), Omitted, Omitted, Omitted),
                        Request(e, Omitted, Given(k), Omitted, Omitted),
                        Request(e, Omitted, Omitted, Given(k), Omitted),
                        Request(e, Omitted, Omitted, Omitted, Given(k)),
                        Request(e, Authorization(TRUE, k), Given(1), Omitted, Omitted)}
                       : k \in RequestKeys}
           : e \in EndpointArgs}

RequireApiKey ==
    /\ \E request \in Requests :
        \E r \in {require_api_key(keys, request, now)} :
            /\ call' = [op |-> "require_api_key", request |-> request]
            /\ keys' = r.keys
            /\ keys_file' = IF r.keys # keys THEN Given(r.keys) ELSE keys_file
            /\ loc' = r.trace
            /\ ret' = r.ret
    /\ UNCHANGED <<stats, fpts, player, avg_var, league, match_up_week, week, roster, now, cache_files, today>>

NextRequests == NextKeys \/ RequireApiKey

SpecRequests == InitKeys /\ [][NextRequests]_vars

\* How many times call c is in trace t
CountOf(t, c) == Cardinality({i \in 1..Len(t) : t[i] = c})

\* The tier of key record info has access to the endpoint of the request
TierHasAccess(info, request) ==
    /\ "tier" \in DOMAIN info
    /\ info.tier \in APITierValues
    /\ check_endpoint_access(info.tier, request.method, request.path)

\* C21: a request to an endpoint wrapped by require_api_key reaches the
\* endpoint function only if a key was supplied, verify_key accepted it, the
\* key's tier has access to the method and path, and check_rate_limit
\* passed; the first of these that fails answers 401, 401, 403 or 429; and
\* increment_usage is called once for a request that reaches the endpoint
\* and not at all for a rejected one.
C21_ChecksInOrder ==
    [][\A request \in Requests :
          call' = [op |-> "require_api_key", request |-> request] =>
              LET api_key == api_key_of(request)
                  k == api_key[1]
              IN  /\ IF not_key(api_key)
                     THEN ret' = Response(401, "API key required")
                     ELSE IF ~(k \in DOMAIN keys /\ keys[k].active)
                     THEN ret' = Response(401, "Invalid or revoked API key")
                     ELSE IF ~TierHasAccess(keys[k], request)
                     THEN ret' = Response(403, "Access denied")
                     ELSE IF ~(keys[k].requests_this_hour < keys[k].rate_limit)
                     THEN ret' = Response(429, "Rate limit exceeded")
                     ELSE ret' = EndpointResult /\ CountOf(loc', "f") = 1
                  /\ ret' # EndpointResult => CountOf(loc', "f") = 0
                  /\ CountOf(loc', "increment_usage") = CountOf(loc', "f")
                  /\ IF CountOf(loc', "f") = 1
                     THEN /\ keys'[k].requests_this_hour = keys[k].requests_this_hour + 1
                          /\ OthersKept(k)
                     ELSE keys' = keys]_vars

-----------------------------------------------------------------------------
(* Ties, negative means, and what the calls leave alone *)

VarianceOf(i) == get_avg_variance_stats(roster[i])[2][2]

RECURSIVE SumOfVariances(_)
SumOfVariances(S) ==
    IF S = {} THEN 0
    ELSE LET x == CHOOSE y \in S : TRUE IN VarianceOf(x) + SumOfVariances(S \ {x})

\* The players counted in entry e of predict's loop
CountedPlayers(e) == {e.top_stats[j][3] : j \in 1..Len(e.top_stats)}

\* C23: when eligible players have equal means and not all fit under the
\* cap, predict keeps those that come first in the roster: no player left
\* out has the mean of a counted player that comes later in the roster, the
\* counted players are listed by falling mean and, among equal means, in
\* roster order, and the day variance total is the sum of the variances of
\* exactly the counted players.
C23_TiesKeepRosterOrder ==
    IsPredict =>
        \A k \in 1..Len(loc) :
            LET e == loc[k]
                S == CountedPlayers(e)
            IN  /\ \A i \in S, j \in Eligible(e.day) \ S :
                      MeanOf(i) = MeanOf(j) => i < j
                /\ \A a, b \in 1..Len(e.top_stats) :
                      a < b => \/ e.top_stats[a][1] > e.top_stats[b][1]
                               \/ /\ e.top_stats[a][1] = e.top_stats[b][1]
                                  /\ e.top_stats[a][3] < e.top_stats[b][3]
                /\ e.day_variance = SumOfVariances(S)

\* Two eligible players of mean 3, the first of variance 0 and the second of
\* variance 9, and a cap of 1: the first is counted, the day variance is 0
C23_Witness ==
    /\ IsPredict
    /\ Len(roster) = 2
    /\ call.daily_active_size = Given(1)
    /\ Len(loc) > 0
    /\ Eligible(loc[1].day) = {1, 2}
    /\ MeanOf(1) = 3 * Denom /\ MeanOf(2) = 3 * Denom
    /\ VarianceOf(1) = 0 /\ VarianceOf(2) = 9 * Denom
    /\ CountedPlayers(loc[1]) = {1}
    /\ loc[1].day_variance = 0

\* The roster without its last player
WithoutLast(ro) == SubSeq(ro, 1, Len(ro) - 1)

\* The allow-list the call runs with, as the list it is
AllowListOfCall == IF call.injuryStatusList = Omitted THEN <<"ACTIVE">>
                   ELSE call.injuryStatusList[1]

\* C24: the top-K selection ignores the sign of the mean: on a day with at
\* most K eligible players every eligible player is counted, whatever its
\* mean, and when the last player of the roster is eligible that day, has a
\* negative mean and fewer than K other players are eligible, the day's mean
\* total is below the total predict gives for the roster without that player
\* by exactly that mean.
C24_TopKIgnoresSign ==
    IsPredict =>
        \A k \in 1..Len(loc) :
            LET e == loc[k]
                n == Len(roster)
            IN  /\ Cardinality(Eligible(e.day)) <= Cap =>
                      /\ CountedPlayers(e) = Eligible(e.day)
                      /\ e.day_points = SumOfMeans(Eligible(e.day))
                /\ (/\ n \in Eligible(e.day)
                    /\ MeanOf(n) < 0
                    /\ Cardinality(Eligible(e.day) \ {n}) < Cap) =>
                      LET without == predict_day(WithoutLast(roster), week, e.day, Cap,
                                                 AllowListOfCall)
                      IN  /\ Returned(without)
                          /\ e.day_points = without[2].day_points + MeanOf(n)
                          /\ e.day_points < without[2].day_points

\* Two eligible players of mean -2 and no cap given: both are counted and
\* the day totals -4, below the -2 of the first player alone
C24_Witness ==
    /\ IsPredict
    /\ Len(roster) = 2
    /\ call.daily_active_size = Omitted
    /\ Len(loc) > 0
    /\ Eligible(loc[1].day) = {1, 2}
    /\ MeanOf(1) = (0 - 2) * Denom /\ MeanOf(2) = (0 - 2) * Denom
    /\ CountedPlayers(loc[1]) = {1, 2}
    /\ loc[1].day_points = (0 - 4) * Denom

-----------------------------------------------------------------------------
(* The same call made a second time on the same objects *)

\* A league of one team, no predictor yet
InitRepeat ==
    /\ league \in {lg \in TeamLeagues : Len(lg.teams) = 1}
    /\ match_up_week = None
    /\ week = None
    /\ NoCalls

\* predictor = RosterWeekPredictor(team.roster, Week(league, week_index))
NewPredictor ==
    /\ week = None
    /\ call = None
    /\ \E i \in 1..Len(league.teams), week_index \in MainWeeks :
        /\ roster' = league.teams[i].roster
        /\ match_up_week' = week_index
        /\ week' = Week(league, week_index)
    /\ UNCHANGED <<stats, fpts, player, avg_var, league, call, loc, ret, keys, keys_file, now, cache_files, today>>

\* for player in players_with_game: one player of the roster, handed to
\* get_avg_variance_stats
PlayerOfRoster ==
    /\ week # None
    /\ player = None
    /\ \E i \in 1..Len(roster) : player' = roster[i]
    /\ UNCHANGED <<stats, fpts, avg_var, league, match_up_week, week, roster,
                   call, loc, ret, keys, keys_file, now, cache_files, today>>

\* get_avg_variance_stats called once more on the same player
GetAvgVarianceStatsAgain ==
    /\ player # None
    /\ avg_var # None
    /\ avg_var' = get_avg_variance_stats(player)
    /\ UNCHANGED <<stats, fpts, player, league, match_up_week, week,
                   roster, call, loc, ret, keys, keys_file, now, cache_files, today>>

\* The call made and made again
Again(c) == dict_set(c, "again", TRUE)
IsAgain(c) == c # None /\ "again" \in DOMAIN c

\* predict or get_total_number_of_games called once more with the arguments
\* of the last call
RosterCallAgain ==
    /\ call # None
    /\ ~IsAgain(call)
    /\ call.op \in {"predict", "get_total_number_of_games"}
    /\ \E r \in {IF call.op = "predict"
                 THEN predict(roster, week, call.daily_active_size,
                              call.starting_day, call.injuryStatusList)
                 ELSE get_total_number_of_games(roster, week, call.daily_active_size,
                                                call.starting_day, call.injuryStatusList)} :
        /\ call' = Again(call)
        /\ loc' = r.loc
        /\ ret' = r.ret
    /\ UNCHANGED <<stats, fpts, player, avg_var, league, match_up_week, week, roster, keys, keys_file, now, cache_files, today>>

\* get_remaining_days_cumulative_scores called once more with the arguments
\* of the last call
LeagueCallAgain ==
    /\ call # None
    /\ ~IsAgain(call)
    /\ call.op = "get_remaining_days_cumulative_scores"
    /\ \E r \in {get_remaining_days_cumulative_scores(
                     league, call.week_index, call.day_of_week_override,
                     call.injuryStatusList)} :
        /\ call' = Again(call)
        /\ match_up_week' = call.week_index
        /\ week' = Week(league, call.week_index)
        /\ loc' = r.loc
        /\ ret' = r.ret
    /\ UNCHANGED <<stats, fpts, player, avg_var, league, roster, keys, keys_file, now, cache_files, today>>

NextRepeat ==
    \/ NewPredictor \/ Predict \/ GetTotalNumberOfGames
    \/ GetRemainingDaysCumulativeScores
    \/ PlayerOfRoster \/ GetAvgVarianceStats \/ GetAvgVarianceStatsAgain
    \/ RosterCallAgain \/ LeagueCallAgain

SpecRepeat == InitRepeat /\ [][NextRepeat]_vars

\* C25: predict, get_total_number_of_games, get_avg_variance_stats and
\* get_remaining_days_cumulative_scores change neither the roster (its
\* players, their order, their stats and injury status) nor the league's
\* teams and schedule, nor the player handed to get_avg_variance_stats, and
\* predict and get_total_number_of_games leave the Week as it was; a call
\* made again with the same arguments returns what it returned before.
C25_CallsLeaveInputsUnchanged ==
    [][/\ (call' # call \/ avg_var' # avg_var) =>
              /\ roster' = roster
              /\ league' = league
              /\ player' = player
              /\ (call' # None /\ call'.op \in {"predict", "get_total_number_of_games"})
                    => week' = week
              /\ IsAgain(call') => ret' = ret
       /\ (avg_var # None /\ player' = player) => avg_var' = avg_var]_vars

\* predict made again on the roster of means 2 and 3: the same forecast
C25_Witness ==
    /\ IsPredict
    /\ IsAgain(call)
    /\ Len(roster) = 2
    /\ MeanOf(1) = 2 * Denom /\ MeanOf(2) = 3 * Denom
    /\ Returned(ret)
    /\ ret[2][1] > 0
    /\ player = roster[2]
    /\ avg_var = Return(<<3 * Denom, 9 * Denom>>)

-----------------------------------------------------------------------------
(* Any integer as the starting day *)

\* Starting days: before the window (as far back as its 8 days reach, and
\* further), inside it, at its end and past it
StartArgs == {0 - 9, 0 - 8, 0 - 1, 0, 1, 6, 7, 8, 9}

PredictFrom ==
    /\ week # None
    /\ call = None
    /\ \E daily_active_size \in CapArgs, starting_day \in StartArgs,
          injuryStatusList \in AllowArgs :
        \E r \in {predict(roster, week, daily_active_size, starting_day, injuryStatusList)} :
            /\ call' = [op |-> "predict",
                        daily_active_size |-> daily_active_size,
                        starting_day |-> starting_day,
                        injuryStatusList |-> injuryStatusList]
            /\ loc' = r.loc
            /\ ret' = r.ret
    /\ UNCHANGED <<stats, fpts, player, avg_var, league, match_up_week, week, roster, keys, keys_file, now, cache_files, today>>

GetTotalNumberOfGamesFrom ==
    /\ week # None
    /\ call = None
    /\ \E daily_active_size \in CapArgs, starting_day \in StartArgs,
          injuryStatusList \in AllowArgs :
        \E r \in {get_total_number_of_games(roster, week, daily_active_size,
                                            starting_day, injuryStatusList)} :
            /\ call' = [op |-> "get_total_number_of_games",
                        daily_active_size |-> daily_active_size,
                        starting_day |-> starting_day,
                        injuryStatusList |-> injuryStatusList]
            /\ loc' = r.loc
            /\ ret' = r.ret
    /\ UNCHANGED <<stats, fpts, player, avg_var, league, match_up_week, week, roster, keys, keys_file, now, cache_files, today>>

GetRemainingDaysCumulativeScoresFrom ==
    /\ call = None
    /\ \E week_index \in MainWeeks, day_of_week_override \in StartArgs,
          injuryStatusList \in AllowArgs :
        \E r \in {get_remaining_days_cumulative_scores(
                     league, week_index, day_of_week_override, injuryStatusList)} :
            /\ call' = [op |-> "get_remaining_days_cumulative_scores",
                        week_index |-> week_index,
                        day_of_week_override |-> day_of_week_override,
                        injuryStatusList |-> injuryStatusList]
            /\ match_up_week' = week_index
            /\ week' = Week(league, week_index)
            /\ loc' = r.loc
            /\ ret' = r.ret
    /\ UNCHANGED <<stats, fpts, player, avg_var, league, roster, keys, keys_file, now, cache_files, today>>

NextStart ==
    \/ NewPredictor \/ PredictFrom \/ GetTotalNumberOfGamesFrom
    \/ GetRemainingDaysCumulativeScoresFrom

SpecStart == InitRepeat /\ [][NextStart]_vars

\* The day of the window that index d of team_game_list reads
DayRead(d) == IF d >= 0 THEN d ELSE num_days(week) + d

\* The days of the window from day s on
DaysFrom(s) == {d \in 0..(num_days(week) - 1) : d >= s}

\* The start day of the call
StartOfCall == IF IsRemainingDays THEN call.day_of_week_override ELSE call.starting_day

\* What the call returns when it counts no day
NothingCounted ==
    IF IsPredict THEN ret = Return(<<0, 0>>)
    ELSE IF IsGames THEN ret = Return(0)
    ELSE /\ Returned(ret)
         /\ DOMAIN ret[2] = TeamNamesOf(league.teams)
         /\ \A n \in DOMAIN ret[2] : ret[2][n] = <<>>

\* The call counts the days of the window from day s on, each once
CountsDaysFrom(s) ==
    /\ (IsPredict \/ IsGames) =>
          /\ \A k \in 1..Len(loc) : loc[k].day >= s
          /\ \A a, b \in 1..Len(loc) : a # b => DayRead(loc[a].day) # DayRead(loc[b].day)
          /\ Returned(ret) => {DayRead(loc[k].day) : k \in 1..Len(loc)} = DaysFrom(s)
    /\ (IsRemainingDays /\ Returned(ret)) =>
          \A n \in DOMAIN ret[2] : Len(ret[2][n]) = Cardinality(DaysFrom(s))
    /\ s >= num_days(week) => NothingCounted

\* C26: for any integer start_day, predict, get_total_number_of_games and
\* get_remaining_days_cumulative_scores count only days of the window with
\* index >= start_day and no day more than once; when start_day is at least
\* the number of days of the window they return (0.0, 0.0), 0 and an empty
\* list instead of raising.
C26_AnyStartDay ==
    call # None => CountsDaysFrom(StartOfCall)

\* C26 as amended: the same for any start_day >= 0.
C26_StartDayFromZero ==
    (call # None /\ StartOfCall >= 0) => CountsDaysFrom(StartOfCall)

\* predict from day 8 of the 8 days of week 1, on the roster of means 2 and
\* 3: no day visited, (0.0, 0.0) returned
C26_Witness ==
    /\ IsPredict
    /\ match_up_week = 1
    /\ call.starting_day = 8
    /\ Len(roster) = 2
    /\ MeanOf(1) = 2 * Denom /\ MeanOf(2) = 3 * Denom
    /\ loc = <<>>
    /\ ret = Return(<<0, 0>>)

-----------------------------------------------------------------------------
(* common/injury_cache.py *)

MaxLeagueId == 2    \* largest league id

\* {}
EmptyDict == <<>>

\* json.dump(data, f) and json.load(f): the file holds the document, and
\* loading gives its dicts, lists, strings, numbers and booleans back
json_dump(data) == <<"json", data>>
json_load(f) == f[2]

\* The cache file of a league is denoted by the league id
get_injury_cache_file(league_id) == league_id

load_injuries_from_cache(files, league_id) ==
    LET cache_file == get_injury_cache_file(league_id)
    IN  IF cache_file \in DOMAIN files
        THEN Return(json_load(files[cache_file]))
        ELSE Return(EmptyDict)

\* save_injuries_to_cache: the files after the call and what it returns
save_injuries_to_cache(files, league_id, team_injuries_lookup, utcnow) ==
    LET cache_file == get_injury_cache_file(league_id)
        data == [team_injuries |-> team_injuries_lookup,
                 cached_at |-> utcnow,
                 league_id |-> league_id]
    IN  [files |-> dict_set(files, cache_file, json_dump(data)), ret |-> Return(TRUE)]

\* from scout.free_agent_scouting import build_team_injuries_lookup:
\* scout/free_agent_scouting.py defines no such name
import_build_team_injuries_lookup == Raise("ImportError")

\* get_injuries_smart: the files after the call and what it returns.  The
\* import is the first statement of the try block, and the except clause
\* answers whatever it raises with {}.
get_injuries_smart(files, lg, league_id, force_refresh, utcnow) ==
    LET cached_injuries == load_injuries_from_cache(files, league_id)[2]
    IN  IF ~force_refresh /\ cached_injuries # EmptyDict
        THEN [files |-> files, ret |-> Return(cached_injuries)]
        ELSE IF ~Returned(import_build_team_injuries_lookup)
        THEN [files |-> files, ret |-> Return(EmptyDict)]
        ELSE [files |-> files, ret |-> import_build_team_injuries_lookup]

\* clear_injury_cache: one league's file, or all of them when no (or a
\* false) league id is given
clear_injury_cache(files, league_id) ==
    IF league_id # Omitted /\ league_id[1] # 0
    THEN [f \in (DOMAIN files) \ {get_injury_cache_file(league_id[1])} |-> files[f]]
    ELSE EmptyDict

LeagueIds == 1..MaxLeagueId

\* An entry of get_team_injuries
Injured(player_name, injury_status) ==
    [player_name |-> player_name, position |-> "PG", positions_eligible |-> <<"PG">>,
     injury_status |-> injury_status, avg_points |-> 0, position_match |-> FALSE]

\* Mappings from NBA team to its injured players
Lookups == {
    EmptyDict,
    [t \in {"LAL"} |-> <<Injured("A", "OUT")>>],
    [t \in {"LAL", "BOS"} |->
        IF t = "LAL" THEN <<Injured("A", "OUT"), Injured("B", "DAY_TO_DAY")>> ELSE <<>>]
}

\* No cache file yet
InitCache ==
    /\ cache_files = EmptyDict
    /\ today = None
    /\ now = 0
    /\ keys = None /\ keys_file = None
    /\ call = None /\ ret = None
    /\ loc = None /\ roster = <<>>
    /\ league = None /\ match_up_week = None /\ week = None
    /\ stats = None /\ fpts = None /\ player = None /\ avg_var = None

SaveInjuriesToCache ==
    /\ \E league_id \in LeagueIds, team_injuries_lookup \in Lookups :
        \E r \in {save_injuries_to_cache(cache_files, league_id, team_injuries_lookup, now)} :
            /\ call' = [op |-> "save_injuries_to_cache", league_id |-> league_id,
                        team_injuries_lookup |-> team_injuries_lookup]
            /\ cache_files' = r.files
            /\ ret' = r.ret
    /\ UNCHANGED <<Others, keys, keys_file, now, today>>

LoadInjuriesFromCache ==
    /\ \E league_id \in LeagueIds :
        /\ call' = [op |-> "load_injuries_from_cache", league_id |-> league_id]
        /\ ret' = load_injuries_from_cache(cache_files, league_id)
    /\ UNCHANGED <<Others, keys, keys_file, now, cache_files, today>>

GetInjuriesSmart ==
    /\ \E league_id \in LeagueIds, force_refresh \in BOOLEAN :
        \E r \in {get_injuries_smart(cache_files, league, league_id, force_refresh, now)} :
            /\ call' = [op |-> "get_injuries_smart", league_id |-> league_id,
                        force_refresh |-> force_refresh]
            /\ cache_files' = r.files
            /\ ret' = r.ret
    /\ UNCHANGED <<Others, keys, keys_file, now, today>>

ClearInjuryCache ==
    /\ \E league_id \in {Omitted} \cup {Given(l) : l \in LeagueIds} :
        /\ call' = [op |-> "clear_injury_cache", league_id |-> league_id]
        /\ cache_files' = clear_injury_cache(cache_files, league_id)
        /\ ret' = Return(TRUE)
    /\ UNCHANGED <<Others, keys, keys_file, now, today>>

NextCache ==
    \/ SaveInjuriesToCache \/ LoadInjuriesFromCache \/ GetInjuriesSmart
    \/ ClearInjuryCache \/ HourPasses

SpecCache == InitCache /\ [][NextCache]_vars

\* The mapping last saved for league l
SavedFor(l) == cache_files[l][2].team_injuries

\* C27: what save_injuries_to_cache stored for a league is what
\* load_injuries_from_cache gives back and what get_injuries_smart
\* without force_refresh returns for that league: the mapping from NBA team
\* to injured players that was saved.
C27_CacheGivesBackWhatWasSaved ==
    \A l \in DOMAIN cache_files :
        (/\ call # None
         /\ \/ call = [op |-> "load_injuries_from_cache", league_id |-> l]
            \/ call = [op |-> "get_injuries_smart", league_id |-> l,
                       force_refresh |-> FALSE])
            => ret = Return(SavedFor(l))

-----------------------------------------------------------------------------
(* utils/date_utils.py: DateScoringPeriodConverter *)

MaxDay == 21    \* days after the season start that date.today() reaches

\* date(2024, 10, 22), as the ordinal of the day
SEASON_START_DATE == 739181

\* timedelta(days=n) added to a date moves its ordinal by n
timedelta(days) == days

\* math.ceil(a / b) for b > 0
math_ceil(a, b) == 0 - ((0 - a) \div b)

date_to_scoring_period(input_date) ==
    IF input_date < SEASON_START_DATE
    THEN Raise("ValueError")
    ELSE LET days_since_start == input_date - SEASON_START_DATE
         IN  Return(days_since_start + 1)

scoring_period_to_date(scoring_period) ==
    IF scoring_period < 1
    THEN Raise("ValueError")
    ELSE LET days_offset == scoring_period - 1
         IN  Return(SEASON_START_DATE + timedelta(days_offset))

matchup_week_to_date_range(week_index) ==
    LET periods == IF week_index = 1
                   THEN <<0, 7>>
                   ELSE <<7 * (week_index - 1), 7 * week_index - 1>>
        start_date == scoring_period_to_date(periods[1] + 1)
        end_date == scoring_period_to_date(periods[2] + 1)
    IN  IF ~Returned(start_date) THEN start_date
        ELSE IF ~Returned(end_date) THEN end_date
        ELSE Return(<<start_date[2], end_date[2]>>)

get_current_scoring_period(date_today) ==
    IF date_today < SEASON_START_DATE
    THEN Return(1)
    ELSE date_to_scoring_period(date_today)

get_current_matchup_week(date_today) ==
    LET current_period == get_current_scoring_period(date_today)[2]
    IN  IF current_period <= 8
        THEN Return(1)
        ELSE Return(math_ceil(current_period + 1, 7))

\* current_date is Omitted (today) or Given(a date)
get_remaining_days_in_week(week_index, current_date, date_today) ==
    LET current == IF current_date = Omitted THEN date_today ELSE current_date[1]
        range_of_week == matchup_week_to_date_range(week_index)
    IN  IF ~Returned(range_of_week) THEN range_of_week
        ELSE LET start_date == range_of_week[2][1]
                 end_date == range_of_week[2][2]
             IN  IF current > end_date THEN Return(0)
                 ELSE IF current < start_date THEN Return((end_date - start_date) + 1)
                 ELSE Return((end_date - current) + 1)

\* The days date.today() is drawn from: two before the season and MaxDay after
Days == (SEASON_START_DATE - 2)..(SEASON_START_DATE + MaxDay)

\* The week indices passed: the weeks of the model and week 0
WeekIndices == Weeks \cup {0}

InitDates ==
    /\ today = SEASON_START_DATE - 2
    /\ cache_files = None /\ now = 0
    /\ keys = None /\ keys_file = None
    /\ call = None /\ ret = None
    /\ loc = None /\ roster = <<>>
    /\ league = None /\ match_up_week = None /\ week = None
    /\ stats = None /\ fpts = None /\ player = None /\ avg_var = None

\* Midnight
DayPasses ==
    /\ today + 1 \in Days
    /\ today' = today + 1
    /\ call' = None
    /\ ret' = None
    /\ UNCHANGED <<Others, keys, keys_file, now, cache_files>>

DateToScoringPeriod ==
    /\ \E input_date \in Days :
        /\ call' = [op |-> "date_to_scoring_period", input_date |-> input_date]
        /\ ret' = date_to_scoring_period(input_date)
    /\ UNCHANGED <<Others, keys, keys_file, now, cache_files, today>>

ScoringPeriodToDate ==
    /\ \E scoring_period \in 0..(MaxDay + 1) :
        /\ call' = [op |-> "scoring_period_to_date", scoring_period |-> scoring_period]
        /\ ret' = scoring_period_to_date(scoring_period)
    /\ UNCHANGED <<Others, keys, keys_file, now, cache_files, today>>

MatchupWeekToDateRange ==
    /\ \E week_index \in WeekIndices :
        /\ call' = [op |-> "matchup_week_to_date_range", week_index |-> week_index]
        /\ ret' = matchup_week_to_date_range(week_index)
    /\ UNCHANGED <<Others, keys, keys_file, now, cache_files, today>>

GetCurrentScoringPeriod ==
    /\ call' = [op |-> "get_current_scoring_period"]
    /\ ret' = get_current_scoring_period(today)
    /\ UNCHANGED <<Others, keys, keys_file, now, cache_files, today>>

GetCurrentMatchupWeek ==
    /\ call' = [op |-> "get_current_matchup_week"]
    /\ ret' = get_current_matchup_week(today)
    /\ UNCHANGED <<Others, keys, keys_file, now, cache_files, today>>

GetRemainingDaysInWeek ==
    /\ \E week_index \in WeekIndices, current_date \in {Omitted, Given(SEASON_START_DATE + 7)} :
        /\ call' = [op |-> "get_remaining_days_in_week", week_index |-> week_index,
                    current_date |-> current_date]
        /\ ret' = get_remaining_days_in_week(week_index, current_date, today)
    /\ UNCHANGED <<Others, keys, keys_file, now, cache_files, today>>

NextDates ==
    \/ DayPasses \/ DateToScoringPeriod \/ ScoringPeriodToDate
    \/ MatchupWeekToDateRange \/ GetCurrentScoringPeriod
    \/ GetCurrentMatchupWeek \/ GetRemainingDaysInWeek

SpecDates == InitDates /\ [][NextDates]_vars

\* The week get_current_matchup_week has just returned
WeekReturned == ret[2]

\* The current scoring period (from 1) on the day of the call
CurrentPeriod == get_current_scoring_period(today)[2]

\* C28: get_current_matchup_week inverts the mapping from a week to its
\* scoring periods: for the current scoring period p >= 1 the week w it
\* returns is one whose window holds p, that is, the day of period p lies in
\* matchup_week_to_date_range(w), and the index p - 1 of that day lies in
\* Week._match_up_week_to_scoring_period_convert(w).
C28_WeekOfCurrentPeriod ==
    (call # None /\ call.op = "get_current_matchup_week" /\ CurrentPeriod >= 1) =>
        LET w == WeekReturned
            dates == matchup_week_to_date_range(w)[2]
            day == scoring_period_to_date(CurrentPeriod)[2]
            periods == _match_up_week_to_scoring_period_convert(w)
        IN  /\ dates[1] <= day /\ day <= dates[2]
            /\ periods[1] <= CurrentPeriod - 1 /\ CurrentPeriod - 1 <= periods[2]

-----------------------------------------------------------------------------
(* The forecast of the week and the table of the remaining days *)

\* The day overrides passed: the day before day 0, the first two days, the
\* last day of week 1 and the day after it
ForecastDays == {0 - 1, 0, 1, 7, 8}

PredictWeekOfDay ==
    /\ call = None
    /\ \E week_index \in MainWeeks, day_of_week_override \in ForecastDays,
          injuryStatusList \in AllowArgs :
        \E r \in {predict_week(league, week_index, day_of_week_override, injuryStatusList)} :
            /\ call' = [op |-> "predict_week",
                        week_index |-> week_index,
                        day_of_week_override |-> day_of_week_override,
                        injuryStatusList |-> injuryStatusList]
            /\ match_up_week' = week_index
            /\ week' = Week(league, week_index)
            /\ loc' = r.loc
            /\ ret' = r.ret
    /\ UNCHANGED <<stats, fpts, player, avg_var, league, roster, keys, keys_file, now, cache_files, today>>

GetRemainingDaysCumulativeScoresOfDay ==
    /\ call = None
    /\ \E week_index \in MainWeeks, day_of_week_override \in ForecastDays,
          injuryStatusList \in AllowArgs :
        \E r \in {get_remaining_days_cumulative_scores(
                     league, week_index, day_of_week_override, injuryStatusList)} :
            /\ call' = [op |-> "get_remaining_days_cumulative_scores",
                        week_index |-> week_index,
                        day_of_week_override |-> day_of_week_override,
                        injuryStatusList |-> injuryStatusList]
            /\ match_up_week' = week_index
            /\ week' = Week(league, week_index)
            /\ loc' = r.loc
            /\ ret' = r.ret
    /\ UNCHANGED <<stats, fpts, player, avg_var, league, roster, keys, keys_file, now, cache_files, today>>

NextForecast == PredictWeekOfDay \/ GetRemainingDaysCumulativeScoresOfDay

SpecForecast == InitLeague /\ [][NextForecast]_vars

\* The table remaining and the score map team_scores go together: the same
\* team names; a list is empty exactly when the loop over the days covers no
\* day; the first entry of a list that is not empty is the forecast
TableMatchesForecast(remaining, team_scores) ==
    /\ DOMAIN remaining = DOMAIN team_scores
    /\ \A n \in DOMAIN remaining :
          /\ (remaining[n] = <<>>) <=> (CallDays = <<>>)
          /\ remaining[n] # <<>> => remaining[n][1] = team_scores[n]

\* C29: for the same league, week index, day override and allow-list, the
\* first entry of each team's list of get_remaining_days_cumulative_scores
\* is that team's forecast of predict_week (same mean, same standard
\* deviation), and the list is empty exactly when the loop of predict over
\* the days covers no day.
C29_FirstEntryIsForecast ==
    /\ (IsRemainingDays /\ Returned(ret)) =>
          \E pw \in {predict_week(league, call.week_index, call.day_of_week_override,
                                  call.injuryStatusList).ret} :
              Returned(pw) /\ TableMatchesForecast(ret[2], pw[2][2])
    /\ (IsPredictWeek /\ Returned(ret)) =>
          \E rd \in {get_remaining_days_cumulative_scores(
                        league, call.week_index, call.day_of_week_override,
                        call.injuryStatusList).ret} :
              Returned(rd) /\ TableMatchesForecast(rd[2], ret[2][2])

\* Two teams forecast from day 1 of week 1: the ten players of Team B play
\* on each of the 7 days left and the 9 best of them are counted
C29_Witness ==
    /\ IsRemainingDays
    /\ Returned(ret)
    /\ call.week_index = 1
    /\ call.day_of_week_override = 1
    /\ DOMAIN ret[2] = {"Team A", "Team B"}
    /\ Len(ret[2]["Team B"]) = 7
    /\ ret[2]["Team B"][1][1] = 7 * 54 * Denom
    /\ ret[2]["Team A"][1][1] > 0

-----------------------------------------------------------------------------
(* line_up/line_up_editer.py: LineUpEditor.get_optimized_line_up *)

MaxLineUp == 3      \* players of an enumerated list, and the ids they carry

\* espn_api's POSITION_MAP read by slot id: POSITION_MAP[i] for i in range(5)
POSITION_MAP == <<"PG", "SG", "SF", "PF", "C">>

\* espn_api's POSITION_MAP read by name: POSITION_MAP['UT'] and the like
POSITION_MAP_by_name(position) ==
    CASE position = "PG" -> 0
      [] position = "SG" -> 1
      [] position = "SF" -> 2
      [] position = "PF" -> 3
      [] position = "C" -> 4
      [] position = "UT" -> 11
      [] position = "BE" -> 12

get_available_position(eligible_slots) ==
    LET available_positions == [i \in 1..5 |-> POSITION_MAP[i]]
        IsPosition(eligible_slot) ==
            \E i \in 1..Len(available_positions) : available_positions[i] = eligible_slot
    IN  SelectSeq(eligible_slots, IsPosition)

\* fixed_slots is a dict in insertion order: a sequence of <<position, id>>
in_fixed_slots(fixed_slots, position) ==
    \E k \in 1..Len(fixed_slots) : fixed_slots[k][1] = position

\* The three locals of get_optimized_line_up
LineUpLocals(fixed_slots, util_list, assigned_player_id_set) ==
    [fixed_slots |-> fixed_slots, util_list |-> util_list,
     assigned_player_id_set |-> assigned_player_id_set]

\* First pass: the players with exactly one position
RECURSIVE first_pass(_, _)
first_pass(players, st) ==
    IF players = <<>> THEN st
    ELSE LET plr == Head(players)
             positions == get_available_position(plr.eligibleSlots)
         IN  IF Len(positions) = 1 /\ ~in_fixed_slots(st.fixed_slots, positions[1])
             THEN first_pass(Tail(players),
                      LineUpLocals(Append(st.fixed_slots, <<positions[1], plr.playerId>>),
                                   st.util_list,
                                   st.assigned_player_id_set \cup {plr.playerId}))
             ELSE first_pass(Tail(players), st)

\* for position in positions: the first position that is free, then break
RECURSIVE take_position(_, _, _)
take_position(positions, st, playerId) ==
    IF positions = <<>> THEN st
    ELSE IF ~in_fixed_slots(st.fixed_slots, Head(positions))
         THEN LineUpLocals(Append(st.fixed_slots, <<Head(positions), playerId>>),
                           st.util_list,
                           st.assigned_player_id_set \cup {playerId})
         ELSE take_position(Tail(positions), st, playerId)

\* A player without a free position goes to UTIL however many are there
second_pass_player_to_util(plr, st) ==
    IF plr.playerId \notin st.assigned_player_id_set
          /\ Cardinality(st.assigned_player_id_set) < 10
    THEN LET positions == get_available_position(plr.eligibleSlots)
             placed == take_position(positions, st, plr.playerId)
         IN  IF plr.playerId \notin placed.assigned_player_id_set
             THEN LineUpLocals(placed.fixed_slots,
                               Append(placed.util_list, plr.playerId),
                               placed.assigned_player_id_set \cup {plr.playerId})
             ELSE placed
    ELSE st

\* One iteration of the second pass
second_pass_player(plr, st) ==
    IF plr.playerId \notin st.assigned_player_id_set
          /\ Cardinality(st.assigned_player_id_set) < 10
    THEN LET positions == get_available_position(plr.eligibleSlots)
             placed == take_position(positions, st, plr.playerId)
         IN  IF plr.playerId \notin placed.assigned_player_id_set
                   /\ Len(placed.util_list) < 4
             THEN LineUpLocals(placed.fixed_slots,
                               Append(placed.util_list, plr.playerId),
                               placed.assigned_player_id_set \cup {plr.playerId})
             ELSE placed
    ELSE st

RECURSIVE second_pass(_, _)
second_pass(players, st) ==
    IF players = <<>> THEN st
    ELSE second_pass(Tail(players), second_pass_player(Head(players), st))

\* The list of (player_id, slot id): the fixed slots in the order they were
\* filled, then the UTIL entries
build_line_up(st) ==
    [k \in 1..Len(st.fixed_slots) |->
        <<st.fixed_slots[k][2], POSITION_MAP_by_name(st.fixed_slots[k][1])>>]
    \o [k \in 1..Len(st.util_list) |-> <<st.util_list[k], POSITION_MAP_by_name("UT")>>]

get_optimized_line_up(players) ==
    LET st1 == first_pass(players, LineUpLocals(<<>>, <<>>, {}))
        st2 == second_pass(players, st1)
    IN  [loc |-> st2, ret |-> Return(build_line_up(st2))]

\* eligibleSlots as espn_api gives them: positions among other slots
SlotLists == {
    <<"PG", "G", "UT", "BE", "IR">>,
    <<"SG", "G", "UT", "BE", "IR">>,
    <<"PG", "SG", "G", "UT", "BE", "IR">>,
    <<"UT", "BE", "IR">>
}

LineUpPlayer(playerId, eligibleSlots) ==
    [playerId |-> playerId, eligibleSlots |-> eligibleSlots]

LineUpPlayers ==
    {LineUpPlayer(i, sl) : i \in 1..MaxLineUp, sl \in SlotLists}

\* The two players of test_get_optimized_line_up_multi_position_player
TestPlayers ==
    <<LineUpPlayer(1, <<"PG", "SG", "G">>), LineUpPlayer(2, <<"SG">>)>>

\* Twelve players who are all point guards and nothing else
TwelveGuards ==
    [k \in 1..12 |-> LineUpPlayer(k, <<"PG", "G", "UT", "BE", "IR">>)]

\* Thirteen players: forwards and centers of two positions each, then one
\* player for each of the five positions, then guards
FullRoster ==
    [k \in 1..13 |->
        LineUpPlayer(100 + k,
            CASE k \in {1, 2} -> <<"SF", "PF", "F", "UT", "BE", "IR">>
              [] k \in {3, 4} -> <<"PF", "C", "F", "UT", "BE", "IR">>
              [] k = 5 -> <<"PG", "G", "UT", "BE", "IR">>
              [] k = 6 -> <<"SG", "G", "UT", "BE", "IR">>
              [] k = 7 -> <<"SF", "F", "UT", "BE", "IR">>
              [] k = 8 -> <<"PF", "F", "UT", "BE", "IR">>
              [] k = 9 -> <<"C", "UT", "BE", "IR">>
              [] OTHER -> <<"PG", "SG", "G", "UT", "BE", "IR">>)]

\* Two players with one id
SameIdTwice ==
    <<LineUpPlayer(7, <<"PG", "G", "UT">>), LineUpPlayer(7, <<"SG", "G", "UT">>)>>

PlayerLists ==
    UNION {[1..n -> LineUpPlayers] : n \in 0..MaxLineUp}
        \cup {TestPlayers, TwelveGuards, FullRoster, SameIdTwice}

InitLineUp ==
    /\ NoCalls
    /\ league = None /\ match_up_week = None /\ week = None

GetOptimizedLineUp ==
    /\ call = None
    /\ \E players \in PlayerLists :
        \E r \in {get_optimized_line_up(players)} :
            /\ call' = [op |-> "get_optimized_line_up", players |-> players]
            /\ loc' = r.loc
            /\ ret' = r.ret
    /\ UNCHANGED <<stats, fpts, player, avg_var, league, match_up_week, week, roster, keys, keys_file, now, cache_files, today>>

NextLineUp == GetOptimizedLineUp

SpecLineUp == InitLineUp /\ [][NextLineUp]_vars

IsLineUp == call # None /\ call.op = "get_optimized_line_up"

\* The ids of the players passed, and whether they are pairwise distinct
IdsOf(players) == {players[i].playerId : i \in 1..Len(players)}
DistinctIds(players) ==
    \A i, j \in 1..Len(players) : players[i].playerId = players[j].playerId => i = j

\* The entries of a line-up with slot id s
EntriesAt(line_up, s) == {k \in 1..Len(line_up) : line_up[k][2] = s}

\* C30: for players with pairwise distinct ids, get_optimized_line_up
\* gives no player more than one slot and no positional slot (PG, SG, SF,
\* PF, C: slot ids 0..4) more than one player, at most 4 entries are UTIL
\* (slot id 11), there are at most 9 pairs, every pair has a positional slot
\* or UTIL, and every pair is for a player of the list passed.
C30_LineUpIsValid ==
    (IsLineUp /\ DistinctIds(call.players)) =>
        LET line_up == ret[2]
        IN  /\ Returned(ret)
            /\ \A k, l \in 1..Len(line_up) : line_up[k][1] = line_up[l][1] => k = l
            /\ \A s \in 0..4 : Cardinality(EntriesAt(line_up, s)) <= 1
            /\ Cardinality(EntriesAt(line_up, 11)) <= 4
            /\ \A k \in 1..Len(line_up) : line_up[k][2] \in (0..4) \cup {11}
            /\ Len(line_up) <= 9
            /\ \A k \in 1..Len(line_up) : line_up[k][1] \in IdsOf(call.players)

\* Thirteen players with distinct ids: the five positions and the four
\* UTIL entries are all filled, and four players are left out
C30_Witness ==
    /\ IsLineUp
    /\ call.players = FullRoster
    /\ Returned(ret)
    /\ Len(ret[2]) = 9
    /\ Cardinality(EntriesAt(ret[2], 11)) = 4
    /\ \A s \in 0..4 : Cardinality(EntriesAt(ret[2], s)) = 1

====
